---- MODULE Spec2Model ----
(***************************************************************************)
(* Model of the retrieval-and-reranking pipeline of the SHL assessment     *)
(* recommender: query enhancement (backend/recommender_local.py), the two  *)
(* balancing variants (recommender_local.py, recommender_api.py).          *)
(*                                                                         *)
(* Python strings are modelled as sequences of one-character strings, so   *)
(* that substring tests, replace, split and join are computed.             *)
(***************************************************************************)
EXTENDS Integers, Sequences, FiniteSets, TLC

VARIABLES
    pc,            \* position of the call chain being modelled
    heap,          \* the candidate records (Python dicts), by object identity
    results,       \* the candidate list handed to balance_recommendations: object ids
    min_k,         \* local path: the min_k argument
    min_results,   \* the min_results argument
    max_results,   \* the max_results argument
    balanced_recs, \* what balance_recommendations returned (object ids)
    final_recs,    \* what the caller receives (object ids)
    failed,        \* an exception escaped the call
    query,         \* local path: the raw query
    url_context,   \* what extract_url_context returned
    enhanced_query, \* what enhance_query returned
    catalog,       \* index build: the assessments read from the JSON file
    parsed,        \* query time: the test_type lists parsed back from the metadata
    store,         \* the ChromaDB store: the collection (if any), its ids, documents, metadatas
    collection,    \* embedding_pipeline.collection: the handle, "unset" or "set"
    pipeline_kind, \* which pipeline class the object is: "local" or "api"
    stats,         \* what get_stats returned
    updated_count, \* update_chromadb.py: the records it updated
    recommender,   \* main.py: the module-level engine, "None", "local" or "api"
    use_api,       \* the USE_API_EMBEDDINGS setting of the process
    search_results,\* what embedding_pipeline.search returned to get_recommendations
    result,        \* what get_recommendations returned to the handler
    response,      \* what /recommend answered
    embed_calls,   \* query-embedding calls made for the request
    index_queries, \* collection.query calls made for the request
    engine_inits,  \* engine constructions attempted for the request
    call_log,      \* the calls made for the request, in the order they were made
    health         \* what GET /health or GET / answered last

vars == <<pc, heap, results, min_k, min_results, max_results,
          balanced_recs, final_recs, failed, query, url_context, enhanced_query,
          catalog, parsed, store, collection, pipeline_kind, stats, updated_count,
          recommender, use_api, search_results, result, response,
          embed_calls, index_queries, engine_inits, call_log, health>>

enhance_vars == <<query, url_context, enhanced_query>>

pipeline_vars == <<catalog, parsed, store, collection, pipeline_kind, stats,
                   updated_count>>

service_vars == <<recommender, use_api, search_results, result, response,
                  embed_calls, index_queries, engine_inits, call_log, health>>

\* the store before any collection is created
NoCollection == [exists |-> FALSE, ids |-> <<>>, documents |-> <<>>, metadatas |-> <<>>]

\* get_stats has not been called
NoStats == [kind |-> "none"]

\* no index build and no pipeline object is part of the run
PipelineIdle ==
    /\ catalog = <<>>
    /\ parsed = <<>>
    /\ store = NoCollection
    /\ collection = "unset"
    /\ pipeline_kind = "local"
    /\ stats = NoStats
    /\ updated_count = 0

\* values of the request variables before any request
NoSearch == [kind |-> "not called", by |-> "", metadatas |-> [kind |-> "missing", val |-> <<>>]]
NoResult == [kind |-> "none", error |-> FALSE, message |-> FALSE, recommendations |-> <<>>]
NoResponse == [status |-> 0, detail |-> "", recommendations |-> <<>>]
NoHealth == [endpoint |-> "", status |-> "", message |-> ""]

\* no request is part of the run
ServiceIdle ==
    /\ recommender = "None"
    /\ use_api = FALSE
    /\ search_results = NoSearch
    /\ result = NoResult
    /\ response = NoResponse
    /\ embed_calls = 0
    /\ index_queries = 0
    /\ engine_inits = 0
    /\ call_log = <<>>
    /\ health = NoHealth

(***************************************************************************)
(* Bounds of the model.                                                    *)
(***************************************************************************)
MaxLen == 11        \* longest candidate list over the two-category pool
MaxRichLen == 2     \* longest candidate list over the full test_type pool
MaxMinK == 3        \* largest min_k
MaxMaxResults == 12 \* largest max_results of the local pipeline

(***************************************************************************)
(* Python list and string primitives.                                      *)
(***************************************************************************)
Min(a, b) == IF a < b THEN a ELSE b
Max(a, b) == IF a > b THEN a ELSE b

Range(s) == {s[i] : i \in DOMAIN s}

\* s[:n]
PyHead(s, n) ==
    IF n >= 0 THEN SubSeq(s, 1, Min(n, Len(s)))
    ELSE SubSeq(s, 1, Max(Len(s) + n, 0))

\* s[n:]
PyTail(s, n) ==
    IF n >= 0 THEN SubSeq(s, Min(n, Len(s)) + 1, Len(s))
    ELSE SubSeq(s, Max(Len(s) + n, 0) + 1, Len(s))

\* s[i:i+len(sub)] == sub
MatchAt(s, sub, i) ==
    /\ i >= 1
    /\ i + Len(sub) - 1 <= Len(s)
    /\ \A j \in 1..Len(sub) : s[i + j - 1] = sub[j]

\* sub in s
Contains(s, sub) == \E i \in 1..(Len(s) + 1) : MatchAt(s, sub, i)

(***************************************************************************)
(* Strings of the source and of the catalog.                               *)
(***************************************************************************)
S_K == <<"K">>
S_P == <<"P">>
S_Knowledge == <<"K","n","o","w","l","e","d","g","e">>
S_KnowledgeSkills ==
    <<"K","n","o","w","l","e","d","g","e"," ","&"," ","S","k","i","l","l","s">>
S_Competencies == <<"C","o","m","p","e","t","e","n","c","i","e","s">>
S_Skills == <<"S","k","i","l","l","s">>
S_knowledge == <<"k","n","o","w","l","e","d","g","e">>

(***************************************************************************)
(* Candidate records.  test_type is a list of tags, a raw string, or the   *)
(* key is absent from the dict.  tkey is the '_test_type_key' entry.       *)
(***************************************************************************)
TList(tags) == [kind |-> "list", val |-> tags]
TStr(raw) == [kind |-> "str", val |-> raw]
TAbsent == [kind |-> "absent", val |-> <<>>]

NoKey == [set |-> FALSE, val |-> <<>>]
Key(k) == [set |-> TRUE, val |-> k]

Rec(u, tt) == [url |-> u, test_type |-> tt, tkey |-> NoKey]

\* the two categories the long candidate lists are drawn from, by type code
BasicTypes == {TList(<<S_K>>), TList(<<S_P>>)}

\* the full pool: several tags, K not in first place, lower-case k only,
\* the empty list, the empty tag, a raw string, no test_type key
RichTypes ==
    BasicTypes \cup
    { TList(<<S_KnowledgeSkills>>),
      TList(<<S_Competencies>>),
      TList(<<S_Competencies, S_KnowledgeSkills>>),
      TList(<<S_Skills>>),
      TList(<<S_knowledge, S_Competencies>>),
      TList(<<>>),
      TList(<< <<>> >>),
      TStr(S_KnowledgeSkills),
      TStr(S_Skills),
      TAbsent }

\* heaps of n records: the i-th record is the i-th nearest document
HeapsOver(pool, maxlen) ==
    UNION { { [i \in 1..n |-> Rec(i, f[i])] : f \in [1..n -> pool] } : n \in 0..maxlen }

CandidateHeaps == HeapsOver(BasicTypes, MaxLen) \cup HeapsOver(RichTypes, MaxRichLen)

\* the list [1, 2, .., n]
Iota(n) == [i \in 1..n |-> i]

(***************************************************************************)
(* recommender_local.py: balance_recommendations                          *)
(***************************************************************************)
DefaultMinK == 2
OtherQuota == 3
TotalSlots == 10

\* mutant: the test ignores case, so a lower-case k qualifies
is_knowledge_test_anycase(r) ==
    LET test_type == IF r.test_type.kind = "absent" THEN TList(<<>>) ELSE r.test_type
        hasK(t) == Contains(t, <<"K">>) \/ Contains(t, <<"k">>)
    IN  IF test_type.kind = "list"
        THEN \E i \in 1..Len(test_type.val) : hasK(test_type.val[i])
        ELSE hasK(test_type.val)

is_knowledge_test(r) ==
    LET test_type == IF r.test_type.kind = "absent" THEN TList(<<>>) ELSE r.test_type
    IN  IF test_type.kind = "list"
        THEN \E i \in 1..Len(test_type.val) :
                 \/ Contains(test_type.val[i], S_K)
                 \/ Contains(test_type.val[i], S_Knowledge)
        ELSE \/ Contains(test_type.val, S_K)
             \/ Contains(test_type.val, S_Knowledge)

k_tests_of(h, rs) == SelectSeq(rs, LAMBDA o : is_knowledge_test(h[o]))
other_tests_of(h, rs) == SelectSeq(rs, LAMBDA o : ~is_knowledge_test(h[o]))

\* mutant: the leftovers are appended non-knowledge first
balance_recommendations_leftover_swapped(h, rs, mk) ==
    LET k_tests == k_tests_of(h, rs)
        other_tests == other_tests_of(h, rs)
        balanced0 == PyHead(k_tests, mk) \o PyHead(other_tests, OtherQuota)
        remaining_slots == TotalSlots - Len(balanced0)
        all_results == PyTail(other_tests, OtherQuota) \o PyTail(k_tests, mk)
        balanced == IF remaining_slots > 0
                    THEN balanced0 \o PyHead(all_results, remaining_slots)
                    ELSE balanced0
    IN  PyHead(balanced, TotalSlots)

\* mutant: the remaining slots are filled with the top results themselves
balance_recommendations_top_fill(h, rs, mk) ==
    LET k_tests == k_tests_of(h, rs)
        other_tests == other_tests_of(h, rs)
        balanced0 == PyHead(k_tests, mk) \o PyHead(other_tests, OtherQuota)
        remaining_slots == TotalSlots - Len(balanced0)
        balanced == IF remaining_slots > 0
                    THEN balanced0 \o PyHead(rs, remaining_slots)
                    ELSE balanced0
    IN  PyHead(balanced, TotalSlots)

\* mutant: the non-knowledge quota is placed before the knowledge quota
balance_recommendations_others_first(h, rs, mk) ==
    LET k_tests == k_tests_of(h, rs)
        other_tests == other_tests_of(h, rs)
        balanced0 == PyHead(other_tests, OtherQuota) \o PyHead(k_tests, mk)
        remaining_slots == TotalSlots - Len(balanced0)
        all_results == PyTail(k_tests, mk) \o PyTail(other_tests, OtherQuota)
        balanced == IF remaining_slots > 0
                    THEN balanced0 \o PyHead(all_results, remaining_slots)
                    ELSE balanced0
    IN  PyHead(balanced, TotalSlots)

\* mutant: only the two quotas are served, the leftovers are not appended
balance_recommendations_quotas_only(h, rs, mk) ==
    PyHead(k_tests_of(h, rs), mk) \o PyHead(other_tests_of(h, rs), OtherQuota)

\* mutant: the leftovers are taken from the whole groups, quotas included
balance_recommendations_quotas_repeated(h, rs, mk) ==
    LET k_tests == k_tests_of(h, rs)
        other_tests == other_tests_of(h, rs)
        balanced0 == PyHead(k_tests, mk) \o PyHead(other_tests, OtherQuota)
        remaining_slots == TotalSlots - Len(balanced0)
        all_results == k_tests \o other_tests
        balanced == IF remaining_slots > 0
                    THEN balanced0 \o PyHead(all_results, remaining_slots)
                    ELSE balanced0
    IN  PyHead(balanced, TotalSlots)

balance_recommendations(h, rs, mk) ==
    LET k_tests == k_tests_of(h, rs)
        other_tests == other_tests_of(h, rs)
        balanced0 == PyHead(k_tests, mk) \o PyHead(other_tests, OtherQuota)
        remaining_slots == TotalSlots - Len(balanced0)
        all_results == PyTail(k_tests, mk) \o PyTail(other_tests, OtherQuota)
        balanced == IF remaining_slots > 0
                    THEN balanced0 \o PyHead(all_results, remaining_slots)
                    ELSE balanced0
    IN  PyHead(balanced, TotalSlots)

\* mutant: the caller forgets the cut
limit_results_nocut(recs, mr) == recs

\* get_recommendations, "Limit to requested range"
limit_results(recs, mr) == PyHead(recs, mr)

(***************************************************************************)
(* Local balance_recommendations applied to a drawn candidate list, and    *)
(* then to its own output.                                                 *)
(***************************************************************************)
InitLocal ==
    /\ pc = "call"
    /\ heap \in CandidateHeaps
    /\ results = Iota(Len(heap))
    /\ min_k = DefaultMinK
    /\ min_results = 0
    /\ max_results = 0
    /\ balanced_recs = <<>>
    /\ final_recs = <<>>
    /\ failed = FALSE
    /\ query = <<>>
    /\ url_context = <<>>
    /\ enhanced_query = <<>>
    /\ PipelineIdle
    /\ ServiceIdle

Balance ==
    /\ pc = "call"
    /\ \E mk \in 0..MaxMinK :
         /\ min_k' = mk
         /\ balanced_recs' = balance_recommendations(heap, results, mk)
    /\ pc' = "balanced"
    /\ UNCHANGED <<heap, results, min_results, max_results, final_recs, failed, enhance_vars>>
    /\ UNCHANGED <<pipeline_vars, service_vars>>

Rebalance ==
    /\ pc = "balanced"
    /\ final_recs' = balance_recommendations(heap, balanced_recs, min_k)
    /\ pc' = "rebalanced"
    /\ UNCHANGED <<heap, results, min_k, min_results, max_results, balanced_recs, failed, enhance_vars>>
    /\ UNCHANGED <<pipeline_vars, service_vars>>

NextLocal == Balance \/ Rebalance

SpecLocal == InitLocal /\ [][NextLocal]_vars

(***************************************************************************)
(* Local get_recommendations, steps 4 and "limit": balance with the        *)
(* default min_k, then cut to max_results.                                 *)
(***************************************************************************)
InitLocalPipeline == InitLocal

LocalGetRecommendations ==
    /\ pc = "call"
    /\ \E mr \in 0..MaxMaxResults :
         /\ max_results' = mr
         /\ balanced_recs' = balance_recommendations(heap, results, DefaultMinK)
         /\ final_recs' = limit_results(balanced_recs', mr)
    /\ pc' = "returned"
    /\ UNCHANGED <<heap, results, min_k, min_results, failed, enhance_vars>>
    /\ UNCHANGED <<pipeline_vars, service_vars>>

NextLocalPipeline == LocalGetRecommendations

SpecLocalPipeline == InitLocalPipeline /\ [][NextLocalPipeline]_vars

(***************************************************************************)
(* recommender_api.py: balance_recommendations                            *)
(***************************************************************************)
S_Unknown == <<"U","n","k","n","o","w","n">>
S_CommaSpace == <<",", " ">>

\* sep.join(parts)
RECURSIVE JoinStr(_, _)
JoinStr(parts, sep) ==
    IF parts = <<>> THEN <<>>
    ELSE IF Len(parts) = 1 THEN parts[1]
    ELSE parts[1] \o sep \o JoinStr(Tail(parts), sep)

\* the normalized key of a record
test_type_key(r) ==
    CASE r.test_type.kind = "absent" -> S_Unknown
      [] r.test_type.kind = "list" -> JoinStr(r.test_type.val, S_CommaSpace)
      [] OTHER -> r.test_type.val

\* rec['_test_type_key'] = key, for every rec of results
store_keys(h, rs) ==
    [o \in DOMAIN h |->
        IF o \in Range(rs) THEN [h[o] EXCEPT !.tkey = Key(test_type_key(h[o]))]
        ELSE h[o]]

\* list(type_groups.keys()): the keys in order of first insertion
type_order_of(h, rs) ==
    LET first == SelectSeq(Iota(Len(rs)),
                     LAMBDA i : \A j \in 1..(i - 1) :
                         test_type_key(h[rs[j]]) # test_type_key(h[rs[i]]))
    IN  [n \in DOMAIN first |-> test_type_key(h[rs[first[n]]])]

\* type_groups, as the list of the groups in type_order
type_groups_of(h, rs) ==
    LET order == type_order_of(h, rs)
    IN  [t \in DOMAIN order |->
            SelectSeq(rs, LAMBDA o : test_type_key(h[o]) = order[t])]

\* mutant: pop() takes the last record of the group
RECURSIVE round_robin_pass_pop_last(_, _, _, _)
round_robin_pass_pop_last(groups, balanced, t, mr) ==
    IF t > Len(groups) THEN [groups |-> groups, balanced |-> balanced]
    ELSE IF groups[t] # <<>>
         THEN LET g == groups[t]
                  b2 == Append(balanced, g[Len(g)])
                  g2 == [groups EXCEPT ![t] = SubSeq(g, 1, Len(g) - 1)]
              IN  IF Len(b2) >= mr THEN [groups |-> g2, balanced |-> b2]
                  ELSE round_robin_pass_pop_last(g2, b2, t + 1, mr)
         ELSE round_robin_pass_pop_last(groups, balanced, t + 1, mr)

\* one pass of "for test_type in type_order", from the t-th key on
RECURSIVE round_robin_pass(_, _, _, _)
round_robin_pass(groups, balanced, t, mr) ==
    IF t > Len(groups) THEN [groups |-> groups, balanced |-> balanced]
    ELSE IF groups[t] # <<>>
         THEN LET b2 == Append(balanced, Head(groups[t]))
                  g2 == [groups EXCEPT ![t] = Tail(groups[t])]
              IN  IF Len(b2) >= mr THEN [groups |-> g2, balanced |-> b2]
                  ELSE round_robin_pass(g2, b2, t + 1, mr)
         ELSE round_robin_pass(groups, balanced, t + 1, mr)

\* while len(balanced) < max_results and any(type_groups.values())
RECURSIVE round_robin(_, _, _)
round_robin(groups, balanced, mr) ==
    IF Len(balanced) < mr /\ \E t \in DOMAIN groups : groups[t] # <<>>
    THEN LET p == round_robin_pass(groups, balanced, 1, mr)
         IN  round_robin(p.groups, p.balanced, mr)
    ELSE balanced

\* rec in balanced: the same object, or an equal dict
rec_in(h, o, lst) == \E i \in DOMAIN lst : lst[i] = o \/ h[lst[i]] = h[o]

\* "for rec in results", from the i-th record on
RECURSIVE ensure_minimum_from(_, _, _, _, _)
ensure_minimum_from(h, rs, i, balanced, mn) ==
    IF i > Len(rs) THEN balanced
    ELSE IF ~rec_in(h, rs[i], balanced)
         THEN LET b2 == Append(balanced, rs[i])
              IN  IF Len(b2) >= mn THEN b2
                  ELSE ensure_minimum_from(h, rs, i + 1, b2, mn)
         ELSE ensure_minimum_from(h, rs, i + 1, balanced, mn)

\* "Ensure minimum"
ensure_minimum(h, rs, balanced, mn) ==
    IF Len(balanced) < mn /\ rs # <<>>
    THEN ensure_minimum_from(h, rs, 1, balanced, mn)
    ELSE balanced

\* mutant: the key is deleted without looking
has_test_type_key_unchecked(r) == TRUE

\* '_test_type_key' in r
has_test_type_key(r) == r.tkey.set

\* "for r in final": del r['_test_type_key'], a KeyError when it is not there
RECURSIVE cleanup_keys(_, _, _)
cleanup_keys(h, final, i) ==
    IF i > Len(final) THEN [heap |-> h, raised |-> FALSE]
    ELSE IF has_test_type_key(h[final[i]])
         THEN IF h[final[i]].tkey.set
              THEN cleanup_keys([h EXCEPT ![final[i]].tkey = NoKey], final, i + 1)
              ELSE [heap |-> h, raised |-> TRUE]
         ELSE cleanup_keys(h, final, i + 1)

\* the whole function: the list after "Ensure minimum", the list returned, the
\* records as it leaves them, and whether an exception escaped
api_balance_recommendations(h, rs, mn, mr) ==
    IF rs = <<>>
    THEN [balanced |-> <<>>, final |-> <<>>, heap |-> h, raised |-> FALSE]
    ELSE LET h1 == store_keys(h, rs)
             selected == round_robin(type_groups_of(h, rs), <<>>, mr)
             balanced == ensure_minimum(h1, rs, selected, mn)
             final == PyHead(balanced, mr)
             c == cleanup_keys(h1, final, 1)
         IN  [balanced |-> balanced,
              final |-> IF c.raised THEN <<>> ELSE final,
              heap |-> c.heap,
              raised |-> c.raised]

(***************************************************************************)
(* Both variants applied to short candidate lists over a fixed set of      *)
(* records: two records of one key, two equal records, a record with two   *)
(* tags, a record without test_type; a list may hold a record twice.       *)
(***************************************************************************)
MaxApiLen == 3      \* longest candidate list of pairwise different records
MaxApiResults == 3  \* largest max_results; min_results goes one beyond it

ApiHeap ==
    << Rec(1, TList(<<S_K>>)),
       Rec(2, TList(<<S_K>>)),
       Rec(3, TList(<<S_P>>)),
       Rec(3, TList(<<S_P>>)),
       Rec(5, TList(<<S_K, S_P>>)),
       [url |-> 6, test_type |-> TAbsent, tkey |-> NoKey] >>

IsInjective(s) == \A i, j \in DOMAIN s : i # j => s[i] # s[j]

DistinctLists ==
    { s \in UNION { [1..n -> DOMAIN ApiHeap] : n \in 0..MaxApiLen } : IsInjective(s) }

\* a list that ends with its first record once more
AliasLists == { Append(s, s[1]) : s \in { x \in DistinctLists : 0 < Len(x) /\ Len(x) < MaxApiLen } }

ApiLists == DistinctLists \cup AliasLists

InitBoth ==
    /\ pc = "call"
    /\ heap = ApiHeap
    /\ results \in ApiLists
    /\ min_k = DefaultMinK
    /\ min_results = 0
    /\ max_results = 0
    /\ balanced_recs = <<>>
    /\ final_recs = <<>>
    /\ failed = FALSE
    /\ query = <<>>
    /\ url_context = <<>>
    /\ enhanced_query = <<>>
    /\ PipelineIdle
    /\ ServiceIdle

ApiBalance ==
    /\ pc = "call"
    /\ \E mn \in 0..(MaxApiResults + 1), mr \in 0..MaxApiResults :
         LET out == api_balance_recommendations(heap, results, mn, mr)
         IN  /\ min_results' = mn
             /\ max_results' = mr
             /\ balanced_recs' = out.balanced
             /\ final_recs' = out.final
             /\ heap' = out.heap
             /\ failed' = out.raised
    /\ pc' = "api_returned"
    /\ UNCHANGED <<results, min_k, enhance_vars>>
    /\ UNCHANGED <<pipeline_vars, service_vars>>

\* local get_recommendations: min_results is accepted and not used
LocalBalance ==
    /\ pc = "call"
    /\ \E mn \in 0..(MaxApiResults + 1), mr \in 0..MaxApiResults :
         /\ min_results' = mn
         /\ max_results' = mr
         /\ balanced_recs' = balance_recommendations(heap, results, DefaultMinK)
         /\ final_recs' = limit_results(balanced_recs', mr)
    /\ pc' = "local_returned"
    /\ UNCHANGED <<heap, results, min_k, failed, enhance_vars>>
    /\ UNCHANGED <<pipeline_vars, service_vars>>

NextBoth == ApiBalance \/ LocalBalance

SpecBoth == InitBoth /\ [][NextBoth]_vars

(***************************************************************************)
(* recommender_local.py: extract_url_context and enhance_query            *)
(***************************************************************************)
IsSpace(c) == c \in {" ", "\t", "\n"}

UpperLetters == <<"A","B","C","D","E","F","G","H","I","J","K","L","M",
                  "N","O","P","Q","R","S","T","U","V","W","X","Y","Z">>
LowerLetters == <<"a","b","c","d","e","f","g","h","i","j","k","l","m",
                  "n","o","p","q","r","s","t","u","v","w","x","y","z">>

\* str.lower(), one character
LowerChar(c) ==
    IF \E i \in DOMAIN UpperLetters : UpperLetters[i] = c
    THEN LowerLetters[CHOOSE i \in DOMAIN UpperLetters : UpperLetters[i] = c]
    ELSE c

\* str.lower()
PyLower(s) == [i \in DOMAIN s |-> LowerChar(s[i])]

\* s.replace(old, new): leftmost occurrences, not overlapping (old is not empty)
RECURSIVE PyReplace(_, _, _)
PyReplace(s, old, new) ==
    IF s = <<>> THEN <<>>
    ELSE IF MatchAt(s, old, 1)
         THEN new \o PyReplace(SubSeq(s, Len(old) + 1, Len(s)), old, new)
         ELSE <<Head(s)>> \o PyReplace(Tail(s), old, new)

\* s.split(sep) with a one-character sep: empty pieces are kept
RECURSIVE PySplitOn(_, _)
PySplitOn(s, sep) ==
    IF \E i \in DOMAIN s : s[i] = sep
    THEN LET i == CHOOSE k \in DOMAIN s : s[k] = sep /\ \A l \in 1..(k - 1) : s[l] # sep
         IN  <<SubSeq(s, 1, i - 1)>> \o PySplitOn(SubSeq(s, i + 1, Len(s)), sep)
    ELSE <<s>>

\* s.split(): pieces between runs of whitespace, none empty
RECURSIVE PySplit(_)
PySplit(s) ==
    IF s = <<>> THEN <<>>
    ELSE IF IsSpace(Head(s)) THEN PySplit(Tail(s))
    ELSE LET stop == IF \E i \in DOMAIN s : IsSpace(s[i])
                     THEN CHOOSE k \in DOMAIN s :
                              IsSpace(s[k]) /\ \A l \in 1..(k - 1) : ~IsSpace(s[l])
                     ELSE Len(s) + 1
         IN  <<SubSeq(s, 1, stop - 1)>> \o PySplit(SubSeq(s, stop, Len(s)))

S_https == <<"h","t","t","p","s",":","/","/">>
S_http == <<"h","t","t","p",":","/","/">>
S_www == <<"w","w","w",".">>
S_Space == <<" ">>
S_Hyphen == <<"-">>
S_Underscore == <<"_">>
MinKeywordLen == 2

\* the length of the match of https?://[^\s]+ that starts at i, 0 when none
url_match_len(s, i) ==
    LET scheme == IF MatchAt(s, S_https, i) THEN Len(S_https)
                  ELSE IF MatchAt(s, S_http, i) THEN Len(S_http)
                  ELSE 0
        from == i + scheme
        stop == IF \E k \in from..Len(s) : IsSpace(s[k])
                THEN CHOOSE k \in from..Len(s) :
                         IsSpace(s[k]) /\ \A l \in from..(k - 1) : ~IsSpace(s[l])
                ELSE Len(s) + 1
    IN  IF scheme = 0 \/ stop = from THEN 0 ELSE stop - i

\* re.findall(url_pattern, query), scanning from position i
RECURSIVE re_findall_urls(_, _)
re_findall_urls(s, i) ==
    IF i > Len(s) THEN <<>>
    ELSE LET n == url_match_len(s, i)
         IN  IF n > 0 THEN <<SubSeq(s, i, i + n - 1)>> \o re_findall_urls(s, i + n)
             ELSE re_findall_urls(s, i + 1)

\* "for part in parts": the keywords of the parts from the i-th on
RECURSIVE url_keywords(_, _)
url_keywords(parts, i) ==
    IF i > Len(parts) THEN <<>>
    ELSE LET words == PySplit(PyReplace(PyReplace(parts[i], S_Hyphen, S_Space),
                                        S_Underscore, S_Space))
         IN  SelectSeq(words, LAMBDA w : Len(w) > MinKeywordLen)
             \o url_keywords(parts, i + 1)

\* mutant: the host (the part before the first '/') is dropped with the scheme
extract_url_context_host_stripped(query_) ==
    LET urls == re_findall_urls(query_, 1)
    IN  IF urls # <<>>
        THEN LET url == urls[1]
                 clean_url == PyReplace(PyReplace(PyReplace(url, S_https, <<>>),
                                                  S_http, <<>>), S_www, <<>>)
                 parts == Tail(PySplitOn(clean_url, "/"))
             IN  JoinStr(url_keywords(parts, 1), S_Space)
        ELSE query_

\* mutant: the last URL of the query is used
extract_url_context_last_url(query_) ==
    LET urls == re_findall_urls(query_, 1)
    IN  IF urls # <<>>
        THEN LET url == urls[Len(urls)]
                 clean_url == PyReplace(PyReplace(PyReplace(url, S_https, <<>>),
                                                  S_http, <<>>), S_www, <<>>)
             IN  JoinStr(url_keywords(PySplitOn(clean_url, "/"), 1), S_Space)
        ELSE query_

extract_url_context(query_) ==
    LET urls == re_findall_urls(query_, 1)
    IN  IF urls # <<>>
        THEN LET url == urls[1]
                 clean_url == PyReplace(PyReplace(PyReplace(url, S_https, <<>>),
                                                  S_http, <<>>), S_www, <<>>)
                 parts == PySplitOn(clean_url, "/")
             IN  JoinStr(url_keywords(parts, 1), S_Space)
        ELSE query_

skill_keywords ==
    << [role |-> <<"d","e","v","e","l","o","p","e","r">>,
        keywords |-> <<"p","r","o","g","r","a","m","m","i","n","g"," ","c","o","d","i",
              "n","g"," ","s","o","f","t","w","a","r","e"," ","d","e","v",
              "e","l","o","p","m","e","n","t">>],
       [role |-> <<"d","a","t","a"," ","s","c","i","e","n","t","i","s","t">>,
        keywords |-> <<"d","a","t","a"," ","a","n","a","l","y","s","i","s"," ","s","t",
              "a","t","i","s","t","i","c","s"," ","m","a","c","h","i","n",
              "e"," ","l","e","a","r","n","i","n","g"," ","p","y","t","h",
              "o","n">>],
       [role |-> <<"m","a","n","a","g","e","r">>,
        keywords |-> <<"l","e","a","d","e","r","s","h","i","p"," ","t","e","a","m"," ",
              "m","a","n","a","g","e","m","e","n","t"," ","c","o","m","m",
              "u","n","i","c","a","t","i","o","n">>],
       [role |-> <<"a","n","a","l","y","s","t">>,
        keywords |-> <<"a","n","a","l","y","s","i","s"," ","p","r","o","b","l","e","m",
              " ","s","o","l","v","i","n","g"," ","c","r","i","t","i","c",
              "a","l"," ","t","h","i","n","k","i","n","g">>],
       [role |-> <<"e","n","g","i","n","e","e","r">>,
        keywords |-> <<"t","e","c","h","n","i","c","a","l"," ","e","n","g","i","n","e",
              "e","r","i","n","g"," ","p","r","o","b","l","e","m"," ","s",
              "o","l","v","i","n","g">>],
       [role |-> <<"d","e","s","i","g","n","e","r">>,
        keywords |-> <<"d","e","s","i","g","n"," ","c","r","e","a","t","i","v","i","t",
              "y"," ","u","s","e","r"," ","e","x","p","e","r","i","e","n",
              "c","e">>],
       [role |-> <<"s","a","l","e","s">>,
        keywords |-> <<"c","o","m","m","u","n","i","c","a","t","i","o","n"," ","p","e",
              "r","s","u","a","s","i","o","n"," ","c","u","s","t","o","m",
              "e","r"," ","r","e","l","a","t","i","o","n","s","h","i",
              "p">>],
       [role |-> <<"m","a","r","k","e","t","i","n","g">>,
        keywords |-> <<"c","o","m","m","u","n","i","c","a","t","i","o","n"," ","s","t",
              "r","a","t","e","g","y"," ","c","r","e","a","t","i","v","e",
              " ","c","o","n","t","e","n","t">>] >>

\* mutant: the loop over the roles has no break
RECURSIVE append_role_keywords_no_break(_, _, _)
append_role_keywords_no_break(enhanced, query_lower, i) ==
    IF i > Len(skill_keywords) THEN enhanced
    ELSE IF Contains(query_lower, skill_keywords[i].role)
         THEN append_role_keywords_no_break(
                  enhanced \o S_Space \o skill_keywords[i].keywords, query_lower, i + 1)
         ELSE append_role_keywords_no_break(enhanced, query_lower, i + 1)

\* "for role, keywords in skill_keywords.items()", from the i-th role on
RECURSIVE append_role_keywords(_, _, _)
append_role_keywords(enhanced, query_lower, i) ==
    IF i > Len(skill_keywords) THEN enhanced
    ELSE IF Contains(query_lower, skill_keywords[i].role)
         THEN enhanced \o S_Space \o skill_keywords[i].keywords
         ELSE append_role_keywords(enhanced, query_lower, i + 1)

enhance_query(query_) ==
    append_role_keywords(extract_url_context(query_), PyLower(query_), 1)

(***************************************************************************)
(* enhance_query applied to a drawn query: a concatenation of fragments    *)
(* (roles in either case, schemes, URLs, path segments, blanks).           *)
(***************************************************************************)
MaxFragments == 3   \* most fragments in a query

QueryFragments ==
    { <<"d","e","v","e","l","o","p","e","r">>,
      <<"S","a","l","e","s"," ","M","a","n","a","g","e","r"," ">>,
      <<" ">>,
      <<"h","t","t","p","s",":","/","/">>,
      <<"h","t","t","p",":","/","/","w","w","w",".","x",".","i","o",
            "/">>,
      <<"j","o","b","-","p","y","_","d","e","v">>,
      <<" ","h","t","t","p","s",":","/","/","b","/","a","b","/">>,
      <<"e","n","g","i","n","e","e","r">>,
      <<"D","a","t","a"," ","S","c","i","e","n","t","i","s","t">> }

RECURSIVE Flatten(_)
Flatten(ss) == IF ss = <<>> THEN <<>> ELSE Head(ss) \o Flatten(Tail(ss))

Queries ==
    { Flatten(fs) : fs \in UNION { [1..n -> QueryFragments] : n \in 0..MaxFragments } }

\* the query of the worked example: a role, then a URL with a three-word path
ExampleQuery ==
    <<"d","e","v","e","l","o","p","e","r"," ","r","o","l","e",","," ","n",
      "e","e","d"," ","h","t","t","p","s",":","/","/","e","x","a","m","p",
      "l","e",".","c","o","m","/","j","o","b","-","p","y","t","h","o","n",
      "-","d","e","v">>

BalanceIdle ==
    /\ heap = <<>>
    /\ results = <<>>
    /\ min_k = DefaultMinK
    /\ min_results = 0
    /\ max_results = 0
    /\ balanced_recs = <<>>
    /\ final_recs = <<>>
    /\ failed = FALSE

InitEnhance ==
    /\ pc = "call"
    /\ query \in Queries \cup {ExampleQuery}
    /\ url_context = <<>>
    /\ enhanced_query = <<>>
    /\ BalanceIdle
    /\ PipelineIdle
    /\ ServiceIdle

EnhanceQuery ==
    /\ pc = "call"
    /\ url_context' = extract_url_context(query)
    /\ enhanced_query' = enhance_query(query)
    /\ pc' = "enhanced"
    /\ UNCHANGED <<query, heap, results, min_k, min_results, max_results,
                   balanced_recs, final_recs, failed>>
    /\ UNCHANGED <<pipeline_vars, service_vars>>

NextEnhance == EnhanceQuery

SpecEnhance == InitEnhance /\ [][NextEnhance]_vars

(***************************************************************************)
(* embedding_pipeline_local.py, embedding_pipeline_api.py and              *)
(* regenerate_embeddings_api.py: the index build and get_stats; and the    *)
(* query-time parsing of the stored test_type (recommender_local.py,       *)
(* recommender_api.py).                                                    *)
(***************************************************************************)
MaxTags == 2   \* most tags in a catalog item's test_type list

S_Sep == <<" ", "|", " ">>
S_Comma == <<",">>
S_assessment_ == <<"a","s","s","e","s","s","m","e","n","t","_">>

\* Python truthiness of a field value: present and not empty
Truthy(v) == v.kind # "absent" /\ v.val # <<>>

\* dict.get(key, ''): the value, '' when the key is absent
GetOrEmpty(v) == IF v.kind = "absent" THEN <<>> ELSE v.val

\* str.strip()
RECURSIVE PyLStrip(_)
PyLStrip(s) == IF s # <<>> /\ IsSpace(Head(s)) THEN PyLStrip(Tail(s)) ELSE s

RECURSIVE PyRStrip(_)
PyRStrip(s) ==
    IF s # <<>> /\ IsSpace(s[Len(s)]) THEN PyRStrip(SubSeq(s, 1, Len(s) - 1)) ELSE s

PyStrip(s) == PyRStrip(PyLStrip(s))

\* str(i) for i >= 0
Digits == <<"0","1","2","3","4","5","6","7","8","9">>

RECURSIVE PyStrInt(_)
PyStrInt(i) ==
    IF i < 10 THEN <<Digits[i + 1]>>
    ELSE PyStrInt(i \div 10) \o <<Digits[(i % 10) + 1]>>

\* f"assessment_{i}"
assessment_id(i) == S_assessment_ \o PyStrInt(i)

\* the text of the test_type field: the tags joined, or the raw value
type_text_of(test_type) ==
    IF test_type.kind = "list" THEN JoinStr(test_type.val, S_CommaSpace)
    ELSE test_type.val

\* mutant: the description is emitted before the test type
prepare_document_text_description_first(assessment) ==
    LET name == IF Truthy(assessment.name) THEN assessment.name.val
                ELSE GetOrEmpty(assessment.assessment_name)
        parts1 == IF name # <<>> THEN <<name>> ELSE <<>>
        parts2 == IF Truthy(assessment.description)
                  THEN Append(parts1, assessment.description.val)
                  ELSE parts1
        parts3 == IF Truthy(assessment.test_type)
                  THEN Append(parts2, type_text_of(assessment.test_type))
                  ELSE parts2
    IN  JoinStr(parts3, S_Sep)

prepare_document_text(assessment) ==
    LET name == IF Truthy(assessment.name) THEN assessment.name.val
                ELSE GetOrEmpty(assessment.assessment_name)
        parts1 == IF name # <<>> THEN <<name>> ELSE <<>>
        parts2 == IF Truthy(assessment.test_type)
                  THEN Append(parts1, type_text_of(assessment.test_type))
                  ELSE parts1
        parts3 == IF Truthy(assessment.description)
                  THEN Append(parts2, assessment.description.val)
                  ELSE parts2
    IN  JoinStr(parts3, S_Sep)

\* regenerate_embeddings_api.py builds the text inline, from 'name' only
regenerate_document_text(assessment) ==
    LET parts1 == IF Truthy(assessment.name) THEN <<assessment.name.val>> ELSE <<>>
        parts2 == IF Truthy(assessment.test_type)
                  THEN Append(parts1, type_text_of(assessment.test_type))
                  ELSE parts1
        parts3 == IF Truthy(assessment.description)
                  THEN Append(parts2, assessment.description.val)
                  ELSE parts2
    IN  JoinStr(parts3, S_Sep)

\* the metadata record stored with the document (the fields the model follows)
assessment_metadata(assessment) ==
    [ assessment_name |-> GetOrEmpty(assessment.name),
      url |-> GetOrEmpty(assessment.url),
      test_type |-> IF assessment.test_type.kind = "list"
                    THEN JoinStr(assessment.test_type.val, S_CommaSpace)
                    ELSE GetOrEmpty(assessment.test_type),
      description |-> GetOrEmpty(assessment.description) ]

\* recommender_local.py: the stored test_type string back to a list
parse_test_type_local(test_type) ==
    LET split == PySplitOn(test_type, ",")
        tags == IF Contains(test_type, S_Comma)
                THEN [i \in DOMAIN split |-> PyStrip(split[i])]
                ELSE <<test_type>>
    IN  IF tags # <<>> THEN tags ELSE <<>>

\* recommender_api.py: the stored test_type string back to a list
parse_test_type_api(test_type) ==
    LET split == PySplitOn(test_type, ",")
    IN  [i \in DOMAIN split |-> PyStrip(split[i])]

(***************************************************************************)
(* The store and the pipeline object.                                      *)
(***************************************************************************)
\* client.get_or_create_collection(name)
get_or_create_collection(st) ==
    IF st.exists THEN st ELSE [NoCollection EXCEPT !.exists = TRUE]

\* create_collection(reset): the store afterwards (the handle is then set)
create_collection(st, reset) ==
    get_or_create_collection(IF reset THEN NoCollection ELSE st)

\* the collection after the build loop and collection.add, given the texts
built_collection(assessments, texts) ==
    [ exists |-> TRUE,
      ids |-> [i \in DOMAIN assessments |-> assessment_id(i - 1)],
      documents |-> texts,
      metadatas |-> [i \in DOMAIN assessments |-> assessment_metadata(assessments[i])] ]

\* mutant: the previous collection is deleted only once the embeddings exist
load_and_embed_assessments_keeping(st, assessments, embed_ok) ==
    IF embed_ok
    THEN [ store |-> built_collection(assessments,
                        [i \in DOMAIN assessments |-> prepare_document_text(assessments[i])]),
           raised |-> FALSE ]
    ELSE [ store |-> get_or_create_collection(st), raised |-> TRUE ]

\* load_and_embed_assessments: create_collection(reset=True), the build loop,
\* model.encode over all documents, then one collection.add; when encode
\* raises nothing has been added
load_and_embed_assessments(st, assessments, embed_ok) ==
    IF embed_ok
    THEN [ store |-> built_collection(assessments,
                        [i \in DOMAIN assessments |-> prepare_document_text(assessments[i])]),
           raised |-> FALSE ]
    ELSE [ store |-> create_collection(st, TRUE), raised |-> TRUE ]

\* regenerate_embeddings_api.py: delete_collection, create_collection, the
\* build loop, embed_content per document (an exception is re-raised), then
\* one collection.add
regenerate_embeddings(st, assessments, embed_ok) ==
    IF embed_ok
    THEN [ store |-> built_collection(assessments,
                        [i \in DOMAIN assessments |-> regenerate_document_text(assessments[i])]),
           raised |-> FALSE ]
    ELSE [ store |-> create_collection(st, TRUE), raised |-> TRUE ]

CollectionNotFound == [kind |-> "error", error |-> "Collection not found"]

local_stats(st) ==
    [ kind |-> "stats",
      collection_name |-> "shl_assessments",
      total_assessments |-> Len(st.ids),
      persist_directory |-> "./chroma_db" ]

api_stats(st) ==
    [ kind |-> "stats",
      collection_name |-> "shl_assessments",
      total_assessments |-> Len(st.ids),
      persist_directory |-> "./chroma_db",
      embedding_method |-> "Google Gemini API (text-embedding-004)" ]

\* mutant: a missing collection is created instead of being reported
get_stats_creating(kind, coll, st, old) ==
    [ stats |-> IF kind = "api" THEN api_stats(st) ELSE local_stats(st),
      collection |-> "set",
      store |-> get_or_create_collection(st),
      raised |-> FALSE ]

\* get_stats of either pipeline class: the returned value, the handle and the
\* store afterwards, and whether an exception escaped (count() on a handle
\* whose collection is gone)
get_stats(kind, coll, st, old) ==
    IF coll = "unset" /\ ~st.exists
    THEN [stats |-> CollectionNotFound, collection |-> coll, store |-> st,
          raised |-> FALSE]
    ELSE IF ~st.exists
    THEN [stats |-> old, collection |-> coll, store |-> st, raised |-> TRUE]
    ELSE [stats |-> IF kind = "api" THEN api_stats(st) ELSE local_stats(st),
          collection |-> "set", store |-> st, raised |-> FALSE]

(***************************************************************************)
(* The drawn catalogs: one assessment, the same assessment twice, or a     *)
(* full assessment followed by a drawn one.                                *)
(***************************************************************************)
Tags == { <<>>, S_K, S_P, <<"a", ",", "b">>, <<" ", "K">> }

TagLists == UNION { [1..n -> Tags] : n \in 0..MaxTags }

TestTypes == { TList(t) : t \in TagLists } \cup { TAbsent, TStr(<<>>), TStr(S_K) }

Assessments ==
    [ name : { TAbsent, TStr(<<>>), TStr(<<"N">>) },
      url : { TStr(<<"u">>) },
      assessment_name : { TAbsent, TStr(<<>>), TStr(<<"A">>) },
      test_type : TestTypes,
      description : { TAbsent, TStr(<<>>), TStr(<<"D">>) } ]

FullAssessment ==
    [ name |-> TStr(<<"N">>), url |-> TStr(<<"u">>), assessment_name |-> TAbsent,
      test_type |-> TList(<<S_K, S_P>>), description |-> TStr(<<"D">>) ]

Catalogs ==
    { <<a>> : a \in Assessments } \cup { <<a, a>> : a \in Assessments }
        \cup { <<FullAssessment, a>> : a \in Assessments }

EnhanceIdle ==
    /\ query = <<>>
    /\ url_context = <<>>
    /\ enhanced_query = <<>>

InitPipeline ==
    /\ pc = "pipeline"
    /\ pipeline_kind \in {"local", "api"}
    /\ catalog \in Catalogs
    /\ parsed = <<>>
    /\ store = NoCollection
    /\ collection = "unset"
    /\ stats = NoStats
    /\ updated_count = 0
    /\ BalanceIdle
    /\ EnhanceIdle
    /\ ServiceIdle

\* LocalEmbeddingPipeline.create_collection
CreateCollection ==
    /\ pipeline_kind = "local"
    /\ pc \in {"pipeline", "indexed"}
    /\ \E reset \in BOOLEAN :
         /\ store' = create_collection(store, reset)
         /\ pc' = IF reset THEN "pipeline" ELSE pc   \* a reset undoes the build
    /\ collection' = "set"
    /\ UNCHANGED <<catalog, parsed, pipeline_kind, stats, updated_count, failed>>
    /\ UNCHANGED <<heap, results, min_k, min_results, max_results, balanced_recs,
                   final_recs, enhance_vars, service_vars>>

\* LocalEmbeddingPipeline.load_and_embed_assessments
LoadAndEmbedAssessments ==
    /\ pipeline_kind = "local"
    /\ pc \in {"pipeline", "indexed", "updated"}
    /\ \E embed_ok \in BOOLEAN :
         \E out \in {load_and_embed_assessments(store, catalog, embed_ok)} :
             /\ store' = out.store
             /\ failed' = out.raised
             /\ pc' = IF out.raised THEN "pipeline" ELSE "indexed"
    /\ collection' = "set"
    /\ UNCHANGED <<catalog, parsed, pipeline_kind, stats, updated_count>>
    /\ UNCHANGED <<heap, results, min_k, min_results, max_results, balanced_recs,
                   final_recs, enhance_vars, service_vars>>

\* regenerate_embeddings_api.py, run offline: no pipeline object holds the
\* collection while it is deleted and rebuilt
RegenerateEmbeddings ==
    /\ pipeline_kind = "api"
    /\ pc \in {"pipeline", "indexed", "updated"}
    /\ collection = "unset"
    /\ \E embed_ok \in BOOLEAN :
         \E out \in {regenerate_embeddings(store, catalog, embed_ok)} :
             /\ store' = out.store
             /\ failed' = out.raised
             /\ pc' = IF out.raised THEN "pipeline" ELSE "indexed"
    /\ UNCHANGED <<catalog, parsed, collection, pipeline_kind, stats, updated_count>>
    /\ UNCHANGED <<heap, results, min_k, min_results, max_results, balanced_recs,
                   final_recs, enhance_vars, service_vars>>

\* get_stats of the pipeline object
GetStats ==
    /\ pc \in {"pipeline", "indexed"}
    /\ LET out == get_stats(pipeline_kind, collection, store, stats)
       IN  /\ stats' = out.stats
           /\ collection' = out.collection
           /\ store' = out.store
           /\ failed' = out.raised
    /\ UNCHANGED <<pc, catalog, parsed, pipeline_kind, updated_count>>
    /\ UNCHANGED <<heap, results, min_k, min_results, max_results, balanced_recs,
                   final_recs, enhance_vars, service_vars>>

\* LocalRecommendationEngine.get_recommendations reading the stored metadata
LocalParse ==
    /\ pipeline_kind = "local"
    /\ pc = "indexed"
    /\ parsed' = [i \in DOMAIN store.metadatas |->
                      parse_test_type_local(store.metadatas[i].test_type)]
    /\ pc' = "parsed"
    /\ UNCHANGED <<catalog, store, collection, pipeline_kind, stats, updated_count, failed>>
    /\ UNCHANGED <<heap, results, min_k, min_results, max_results, balanced_recs,
                   final_recs, enhance_vars, service_vars>>

\* APIRecommendationEngine.get_recommendations reading the stored metadata
ApiParse ==
    /\ pipeline_kind = "api"
    /\ pc = "indexed"
    /\ parsed' = [i \in DOMAIN store.metadatas |->
                      parse_test_type_api(store.metadatas[i].test_type)]
    /\ pc' = "parsed"
    /\ UNCHANGED <<catalog, store, collection, pipeline_kind, stats, updated_count, failed>>
    /\ UNCHANGED <<heap, results, min_k, min_results, max_results, balanced_recs,
                   final_recs, enhance_vars, service_vars>>

NextPipeline ==
    \/ CreateCollection
    \/ LoadAndEmbedAssessments
    \/ RegenerateEmbeddings
    \/ GetStats
    \/ LocalParse
    \/ ApiParse

SpecPipeline == InitPipeline /\ [][NextPipeline]_vars

(***************************************************************************)
(* scraper/update_chromadb.py: the selective update of an existing         *)
(* collection from the catalog file, matching on url.                      *)
(***************************************************************************)
\* collection.get(where={"url": url}): the positions of the matching records
url_matches(st, url) ==
    SelectSeq(Iota(Len(st.ids)), LAMBDA j : st.metadatas[j].url = url)

\* assessment[key] raises KeyError for one of the keys read before the lookup
lookup_raises(assessment) ==
    assessment.name.kind = "absent" \/ assessment.url.kind = "absent"

\* assessment[key] raises KeyError for one of the keys read for the metadata
metadata_raises(assessment) ==
    assessment.description.kind = "absent" \/ assessment.test_type.kind = "absent"

\* the metadata written by the update (the fields the model follows)
updated_metadata(assessment) ==
    [ assessment_name |-> assessment.name.val,
      url |-> assessment.url.val,
      test_type |-> IF assessment.test_type.kind = "list"
                    THEN JoinStr(assessment.test_type.val, S_CommaSpace)
                    ELSE assessment.test_type.val,
      description |-> assessment.description.val ]

\* collection.update(ids=[id], metadatas=[metadata], documents=[description])
collection_update(st, j, assessment) ==
    [st EXCEPT !.metadatas[j] = updated_metadata(assessment),
               !.documents[j] = assessment.description.val]

\* mutant: an item without a matching record is added to the collection
RECURSIVE update_loop_upserting(_, _, _, _)
update_loop_upserting(st, json_data, i, count) ==
    IF i > Len(json_data) THEN [store |-> st, updated_count |-> count, raised |-> FALSE]
    ELSE IF lookup_raises(json_data[i])
    THEN [store |-> st, updated_count |-> count, raised |-> TRUE]
    ELSE IF metadata_raises(json_data[i])
    THEN [store |-> st, updated_count |-> count, raised |-> TRUE]
    ELSE LET matches == url_matches(st, json_data[i].url.val)
             st1 == IF matches # <<>> THEN st
                    ELSE [st EXCEPT !.ids = Append(@, assessment_id(Len(st.ids))),
                                    !.documents = Append(@, <<>>),
                                    !.metadatas = Append(@, updated_metadata(json_data[i]))]
             j == IF matches # <<>> THEN matches[1] ELSE Len(st1.ids)
         IN  update_loop_upserting(collection_update(st1, j, json_data[i]),
                                   json_data, i + 1, count + 1)

\* "for assessment in json_data", from the i-th item on
RECURSIVE update_loop(_, _, _, _)
update_loop(st, json_data, i, count) ==
    IF i > Len(json_data) THEN [store |-> st, updated_count |-> count, raised |-> FALSE]
    ELSE IF lookup_raises(json_data[i])
    THEN [store |-> st, updated_count |-> count, raised |-> TRUE]
    ELSE LET matches == url_matches(st, json_data[i].url.val)
         IN  IF matches = <<>>
             THEN update_loop(st, json_data, i + 1, count)
             ELSE IF metadata_raises(json_data[i])
             THEN [store |-> st, updated_count |-> count, raised |-> TRUE]
             ELSE update_loop(collection_update(st, matches[1], json_data[i]),
                              json_data, i + 1, count + 1)

\* the script: client.get_collection raises when there is no collection
update_chromadb(st, json_data) ==
    IF ~st.exists THEN [store |-> st, updated_count |-> 0, raised |-> TRUE]
    ELSE update_loop(st, json_data, 1, 0)

(***************************************************************************)
(* Rebuilds and selective updates over catalogs that change between runs:  *)
(* items identified by url, rescraped in another order, with items added   *)
(* or removed, or with a key missing.                                      *)
(***************************************************************************)
MaxItems == 2   \* most items in a scraped catalog

Urls == { <<"u", "1">>, <<"u", "2">>, <<"u", "3">> }

ScrapedItem(u) ==
    [ name |-> TStr(<<"N">>), url |-> TStr(u), assessment_name |-> TAbsent,
      test_type |-> TList(<<S_K>>), description |-> TStr(<<"D">>) ]

\* the items a scrape may give for a url; the last url also comes without a
\* name or without a description
ItemsOf(u) ==
    { ScrapedItem(u) } \cup
    ( IF u = <<"u", "3">>
      THEN { [ScrapedItem(u) EXCEPT !.description = TAbsent],
             [ScrapedItem(u) EXCEPT !.name = TAbsent] }
      ELSE {} )

ScrapedItems == UNION { ItemsOf(u) : u \in Urls }

\* catalogs of 1..MaxItems items with pairwise different urls
ScrapedCatalogs ==
    { c \in UNION { [1..n -> ScrapedItems] : n \in 1..MaxItems } :
        \A i, j \in DOMAIN c : i # j => c[i].url # c[j].url }

InitIndex ==
    /\ pc = "pipeline"
    /\ pipeline_kind \in {"local", "api"}
    /\ catalog \in ScrapedCatalogs
    /\ parsed = <<>>
    /\ store = NoCollection
    /\ collection = "unset"
    /\ stats = NoStats
    /\ updated_count = 0
    /\ BalanceIdle
    /\ EnhanceIdle
    /\ ServiceIdle

\* the scraper writes a new catalog file
Rescrape ==
    /\ pc \in {"pipeline", "indexed", "updated"}
    /\ catalog' \in ScrapedCatalogs
    /\ catalog' # catalog
    /\ UNCHANGED <<pc, parsed, store, collection, pipeline_kind, stats, updated_count,
                   failed>>
    /\ UNCHANGED <<heap, results, min_k, min_results, max_results, balanced_recs,
                   final_recs, enhance_vars, service_vars>>

\* python update_chromadb.py
UpdateChromadb ==
    /\ pc \in {"pipeline", "indexed", "updated"}
    /\ \E out \in {update_chromadb(store, catalog)} :
         /\ store' = out.store
         /\ updated_count' = out.updated_count
         /\ failed' = out.raised
    /\ pc' = "updated"
    /\ UNCHANGED <<catalog, parsed, collection, pipeline_kind, stats>>
    /\ UNCHANGED <<heap, results, min_k, min_results, max_results, balanced_recs,
                   final_recs, enhance_vars, service_vars>>

NextIndex ==
    \/ LoadAndEmbedAssessments
    \/ RegenerateEmbeddings
    \/ Rescrape
    \/ UpdateChromadb

SpecIndex == InitIndex /\ [][NextIndex]_vars

(***************************************************************************)
(* main.py: /recommend, with the engine it constructs on first use, and    *)
(* get_recommendations of both engines down to the pipeline's search.      *)
(***************************************************************************)
MaxCandidates == 11   \* most items in the served collection

NResults == 20        \* search(enhanced_query, n_results=20)
MinResults == 5       \* get_recommendations(..., min_results=5, ...)
MaxResults == 10      \* get_recommendations(..., max_results=10)

\* what search can hand back
SearchRaised(by) == [kind |-> "raised", by |-> by, metadatas |-> [kind |-> "missing", val |-> <<>>]]
SearchFalsy == [kind |-> "falsy", by |-> "", metadatas |-> [kind |-> "missing", val |-> <<>>]]
SearchDict(shape, ms) == [kind |-> "dict", by |-> "", metadatas |-> [kind |-> shape, val |-> ms]]

\* the ways an index may report that nothing matched: no result object, a
\* result without 'metadatas', with 'metadatas' None, [] or [[]]
EmptyAnswers ==
    { SearchFalsy, SearchDict("missing", <<>>), SearchDict("null", <<>>),
      SearchDict("empty", <<>>), SearchDict("listed", <<>>) }

\* collection.query(query_embeddings=[...], n_results=n): the nearest items
collection_query(st, n, empty_answer) ==
    IF st.metadatas = <<>> THEN empty_answer
    ELSE SearchDict("listed", PyHead(st.metadatas, n))

\* mutant: the collection is fetched on every search
pipeline_search_refetching(coll, st, n, embed_ok, index_ok, empty_answer) ==
    IF ~st.exists
    THEN [value |-> SearchRaised("get_collection"), collection |-> "unset",
          embed_calls |-> 0, index_queries |-> 0, calls |-> <<"get_collection">>]
    ELSE IF ~embed_ok
    THEN [value |-> SearchRaised("embedding"), collection |-> "set",
          embed_calls |-> 1, index_queries |-> 0,
          calls |-> <<"get_collection", "embed">>]
    ELSE [value |-> IF index_ok THEN collection_query(st, n, empty_answer)
                    ELSE SearchRaised("query"),
          collection |-> "set", embed_calls |-> 1, index_queries |-> 1,
          calls |-> <<"get_collection", "embed", "query">>]

\* mutant: a failed embedding call is made once more before giving up
pipeline_search_retrying(coll, st, n, embed_ok, index_ok, empty_answer) ==
    IF coll = "unset" /\ ~st.exists
    THEN [value |-> SearchRaised("get_collection"), collection |-> coll,
          embed_calls |-> 0, index_queries |-> 0, calls |-> <<"get_collection">>]
    ELSE IF ~embed_ok
    THEN [value |-> SearchRaised("embedding"), collection |-> "set",
          embed_calls |-> 2, index_queries |-> 0,
          calls |-> (IF coll = "unset" THEN <<"get_collection">> ELSE <<>>)
                        \o <<"embed", "embed">>]
    ELSE [value |-> IF index_ok THEN collection_query(st, n, empty_answer)
                    ELSE SearchRaised("query"),
          collection |-> "set", embed_calls |-> 1, index_queries |-> 1,
          calls |-> (IF coll = "unset" THEN <<"get_collection">> ELSE <<>>)
                        \o <<"embed", "query">>]

\* search of either pipeline class: fetch the collection if the handle is
\* unset, embed the query, query the index; an exception of any of the three
\* calls leaves search at once
pipeline_search(coll, st, n, embed_ok, index_ok, empty_answer) ==
    IF coll = "unset" /\ ~st.exists
    THEN [value |-> SearchRaised("get_collection"), collection |-> coll,
          embed_calls |-> 0, index_queries |-> 0, calls |-> <<"get_collection">>]
    ELSE IF ~embed_ok
    THEN [value |-> SearchRaised("embedding"), collection |-> "set",
          embed_calls |-> 1, index_queries |-> 0,
          calls |-> (IF coll = "unset" THEN <<"get_collection">> ELSE <<>>)
                        \o <<"embed">>]
    ELSE [value |-> IF index_ok THEN collection_query(st, n, empty_answer)
                    ELSE SearchRaised("query"),
          collection |-> "set", embed_calls |-> 1, index_queries |-> 1,
          calls |-> (IF coll = "unset" THEN <<"get_collection">> ELSE <<>>)
                        \o <<"embed", "query">>]

\* `not search_results or not search_results.get('metadatas')`
local_no_matches(sr) ==
    sr.kind = "falsy" \/ sr.metadatas.kind \in {"missing", "null", "empty"}

\* the candidate dicts built from the metadata, as a heap of records
local_recommendations(ms) ==
    [i \in DOMAIN ms |-> Rec(ms[i].url, TList(parse_test_type_local(ms[i].test_type)))]

api_recommendations(ms) ==
    [i \in DOMAIN ms |-> Rec(ms[i].url, TList(parse_test_type_api(ms[i].test_type)))]

\* what get_recommendations hands back: the dict, the candidates it built, and
\* whether it got as far as balance_recommendations
Outcome(res, h, bal, calls) ==
    [result |-> res, heap |-> h, balanced |-> bal, calls |-> calls]

ErrorResult == [kind |-> "dict", error |-> TRUE, message |-> FALSE, recommendations |-> <<>>]
NoMatchResult == [kind |-> "dict", error |-> FALSE, message |-> TRUE, recommendations |-> <<>>]
FoundResult(recs) == [kind |-> "dict", error |-> FALSE, message |-> FALSE, recommendations |-> recs]

\* LocalRecommendationEngine.get_recommendations after the search
local_get_recommendations(sr, mn, mr) ==
    IF sr.kind = "raised" THEN Outcome(ErrorResult, <<>>, <<>>, <<>>)
    ELSE IF local_no_matches(sr) THEN Outcome(NoMatchResult, <<>>, <<>>, <<>>)
    ELSE LET h == local_recommendations(sr.metadatas.val)
             balanced == balance_recommendations(h, Iota(Len(h)), DefaultMinK)
         IN  Outcome(FoundResult(limit_results(balanced, mr)), h, balanced, <<"balance">>)

\* APIRecommendationEngine.get_recommendations after the search
api_get_recommendations(sr, mn, mr) ==
    IF sr.kind = "raised" THEN Outcome(ErrorResult, <<>>, <<>>, <<>>)
    ELSE IF sr.kind = "falsy" \/ sr.metadatas.kind = "missing"
    THEN Outcome(FoundResult(<<>>), <<>>, <<>>, <<"balance">>)
    ELSE IF sr.metadatas.kind \in {"null", "empty"}   \* ['metadatas'][0] raises
    THEN Outcome(ErrorResult, <<>>, <<>>, <<>>)
    ELSE LET h == api_recommendations(sr.metadatas.val)
             out == api_balance_recommendations(h, Iota(Len(h)), mn, mr)
         IN  IF out.raised THEN Outcome(ErrorResult, out.heap, <<>>, <<"balance">>)
             ELSE Outcome(FoundResult(out.final), out.heap, out.balanced, <<"balance">>)

\* `not request.query or len(request.query.strip()) == 0`
is_blank(q) == q = <<>> \/ Len(PyStrip(q)) = 0

\* mutant: the handler does not look for 'error' in the result
result_has_error_ignored(res) == FALSE

\* `isinstance(result, dict) and 'error' in result`
result_has_error(res) == res.kind = "dict" /\ res.error

Response(status, detail, recs) ==
    [status |-> status, detail |-> detail, recommendations |-> recs]

\* mutant: the engine is constructed for every request
get_recommender_uncached(rec, api, coll, st, init_ok) ==
    IF ~init_ok
    THEN [recommender |-> "None", collection |-> coll, engine_inits |-> 1,
          calls |-> <<"construct">>]
    ELSE [recommender |-> IF api THEN "api" ELSE "local",
          collection |-> IF st.exists THEN "set" ELSE "unset",
          engine_inits |-> 1, calls |-> <<"construct", "get_collection">>]

\* get_recommender: the engine in use afterwards ("None" when its
\* construction raised, answered with 503), its collection handle, and the
\* number of constructions attempted; the constructor tries get_collection
\* and goes on without a handle when that raises
get_recommender(rec, api, coll, st, init_ok) ==
    IF rec # "None"
    THEN [recommender |-> rec, collection |-> coll, engine_inits |-> 0, calls |-> <<>>]
    ELSE IF ~init_ok
    THEN [recommender |-> "None", collection |-> coll, engine_inits |-> 1,
          calls |-> <<"construct">>]
    ELSE [recommender |-> IF api THEN "api" ELSE "local",
          collection |-> IF st.exists THEN "set" ELSE "unset",
          engine_inits |-> 1, calls |-> <<"construct", "get_collection">>]

\* the request gets as far as get_recommendations
query_is_served(engine, q) == engine # "None" /\ ~is_blank(q)

\* search as called (or not) by the request
request_search(engine, coll, st, q, embed_ok, index_ok, empty_answer) ==
    IF query_is_served(engine, q)
    THEN pipeline_search(coll, st, NResults, embed_ok, index_ok, empty_answer)
    ELSE [value |-> NoSearch, collection |-> coll, embed_calls |-> 0,
          index_queries |-> 0, calls |-> <<>>]

\* get_recommendations of the engine in use, as called (or not) by the request
request_recommendations(engine, q, sr) ==
    IF ~query_is_served(engine, q) THEN Outcome(NoResult, <<>>, <<>>, <<>>)
    ELSE IF engine = "api" THEN api_get_recommendations(sr, MinResults, MaxResults)
    ELSE local_get_recommendations(sr, MinResults, MaxResults)

\* the query get_recommendations searches with
request_enhanced_query(engine, q) ==
    IF ~query_is_served(engine, q) THEN <<>>
    ELSE IF engine = "api" THEN PyStrip(q)
    ELSE enhance_query(q)

\* recommend_assessments: the answer, given the engine get_recommender left
\* and the result of get_recommendations
recommend_assessments(engine, q, res, valid) ==
    IF engine = "None"
    THEN Response(503, "Failed to initialize recommendation engine", <<>>)
    ELSE IF is_blank(q)
    THEN Response(400, "Query cannot be empty", <<>>)
    ELSE IF result_has_error(res)
    THEN Response(400, "error", <<>>)
    ELSE IF res.recommendations # <<>> /\ ~valid
    THEN Response(500, "Error generating recommendations", <<>>)
    ELSE Response(200, "", res.recommendations)

\* the calls of one request in the order the code makes them: get_recommender,
\* then inside get_recommendations enhance_query, search and
\* balance_recommendations, then the handler's "Format response"
request_calls(engine, q, construction, search, balancing, answer) ==
    construction
        \o (IF query_is_served(engine, q)
            THEN <<"enhance">> \o search \o balancing
            ELSE <<>>)
        \o (IF answer.status \in {200, 500} THEN <<"format">> ELSE <<>>)

(***************************************************************************)
(* The served process: a store built offline, then requests one at a time. *)
(***************************************************************************)
TypeCycles ==
    { <<S_K>>, <<S_P>>, <<S_K, S_P>>, <<S_P, S_P, S_K \o S_CommaSpace \o S_P>>, <<<<>>>> }

served_metadata(cycle, i) ==
    [ assessment_name |-> <<"N">>,
      url |-> <<"u">> \o PyStrInt(i),
      test_type |-> cycle[((i - 1) % Len(cycle)) + 1],
      description |-> <<>> ]

ServedStores ==
    { NoCollection } \cup
    { [ exists |-> TRUE,
        ids |-> [i \in 1..n |-> assessment_id(i - 1)],
        documents |-> [i \in 1..n |-> <<"N">>],
        metadatas |-> [i \in 1..n |-> served_metadata(c, i)] ] :
      n \in 0..MaxCandidates, c \in TypeCycles }

RequestQueries ==
    { <<>>, <<" ", "\t">>, <<"j","a","v","a">>,
      <<" ","d","e","v","e","l","o","p","e","r">> }

\* what the environment decides during a request: whether the engine can be
\* constructed (asked only while there is none), whether the embedding call
\* succeeds, whether the index query succeeds (asked only after the
\* embedding), how an index without items reports that nothing matched, and
\* whether the records pass the response model
InitOutcomes(rec) == IF rec = "None" THEN BOOLEAN ELSE {TRUE}

IndexOutcomes(embed_ok) == IF embed_ok THEN BOOLEAN ELSE {TRUE}

EmptyAnswersOf(st) ==
    IF st.metadatas = <<>> THEN EmptyAnswers ELSE {SearchDict("listed", <<>>)}

ValidationOutcomes(st) == IF st.metadatas = <<>> THEN {TRUE} ELSE BOOLEAN

InitService ==
    /\ pc = "serving"
    /\ use_api \in BOOLEAN
    /\ pipeline_kind = IF use_api THEN "api" ELSE "local"
    /\ store \in ServedStores
    /\ collection = "unset"
    /\ recommender = "None"
    /\ search_results = NoSearch
    /\ result = NoResult
    /\ response = NoResponse
    /\ embed_calls = 0
    /\ index_queries = 0
    /\ engine_inits = 0
    /\ call_log = <<>>
    /\ health = NoHealth
    /\ catalog = <<>>
    /\ parsed = <<>>
    /\ stats = NoStats
    /\ updated_count = 0
    /\ heap = <<>>
    /\ results = <<>>
    /\ min_k = DefaultMinK
    /\ min_results = MinResults
    /\ max_results = MaxResults
    /\ balanced_recs = <<>>
    /\ final_recs = <<>>
    /\ failed = FALSE
    /\ EnhanceIdle

\* POST /recommend, from the request to the answer
Recommend ==
    /\ pc = "serving"
    /\ \E q \in RequestQueries,
          init_ok \in InitOutcomes(recommender),
          embed_ok \in BOOLEAN,
          empty_answer \in EmptyAnswersOf(store),
          valid \in ValidationOutcomes(store) :
         \E index_ok \in IndexOutcomes(embed_ok) :
         \E rec \in {get_recommender(recommender, use_api, collection, store, init_ok)} :
         \E found \in {request_search(rec.recommender, rec.collection, store, q,
                                      embed_ok, index_ok, empty_answer)} :
         \E got \in {request_recommendations(rec.recommender, q, found.value)} :
         \E answer \in {recommend_assessments(rec.recommender, q, got.result, valid)} :
             /\ query' = q
             /\ recommender' = rec.recommender
             /\ engine_inits' = rec.engine_inits
             /\ collection' = found.collection
             /\ enhanced_query' = request_enhanced_query(rec.recommender, q)
             /\ search_results' = found.value
             /\ embed_calls' = found.embed_calls
             /\ index_queries' = found.index_queries
             /\ result' = got.result
             /\ heap' = got.heap
             /\ results' = Iota(Len(got.heap))
             /\ balanced_recs' = got.balanced
             /\ final_recs' = got.result.recommendations
             /\ response' = answer
             /\ call_log' = request_calls(rec.recommender, q, rec.calls, found.calls,
                                          got.calls, answer)
    /\ UNCHANGED <<pc, use_api, pipeline_kind, store, catalog, parsed, stats, updated_count,
                   min_k, min_results, max_results, failed, url_context, health>>

NextService == Recommend

SpecService == InitService /\ [][NextService]_vars

(***************************************************************************)
(* The whole server process: GET /, GET /health and POST /recommend in any *)
(* order, while the collection may be built by an offline run. Handlers    *)
(* are `async def` without an await, so each runs to its end before the    *)
(* next one starts.                                                        *)
(***************************************************************************)
Healthy ==
    [ endpoint |-> "/health", status |-> "healthy",
      message |-> "API is running. Recommendation engine will initialize on first request." ]

Unhealthy ==
    [ endpoint |-> "/health", status |-> "unhealthy",
      message |-> "Failed to initialize recommendation engine" ]

RootAnswer ==
    [ endpoint |-> "/", status |-> "", message |-> "SHL Assessment Recommendation API" ]

\* mutant: the health check constructs the engine and reports on it
health_check_initializing(rec, api, coll, st, init_ok) ==
    LET engine == get_recommender(rec, api, coll, st, init_ok)
    IN  [ recommender |-> engine.recommender, collection |-> engine.collection,
          answer |-> IF engine.recommender = "None" THEN Unhealthy ELSE Healthy ]

\* health_check: the answer, and the module-level engine and its handle as the
\* handler leaves them
health_check(rec, api, coll, st, init_ok) ==
    [ recommender |-> rec, collection |-> coll, answer |-> Healthy ]

\* root
root(rec, coll) == [ recommender |-> rec, collection |-> coll, answer |-> RootAnswer ]

InitServer == InitService

\* GET /health
HealthCheck ==
    /\ pc = "serving"
    /\ \E init_ok \in BOOLEAN :
         \E out \in {health_check(recommender, use_api, collection, store, init_ok)} :
             /\ recommender' = out.recommender
             /\ collection' = out.collection
             /\ health' = out.answer
    /\ UNCHANGED <<pc, use_api, pipeline_kind, store, catalog, parsed, stats, updated_count,
                   heap, results, min_k, min_results, max_results, balanced_recs,
                   final_recs, failed, enhance_vars, search_results, result, response,
                   embed_calls, index_queries, engine_inits, call_log>>

\* GET /
Root ==
    /\ pc = "serving"
    /\ \E out \in {root(recommender, collection)} :
         /\ recommender' = out.recommender
         /\ collection' = out.collection
         /\ health' = out.answer
    /\ UNCHANGED <<pc, use_api, pipeline_kind, store, catalog, parsed, stats, updated_count,
                   heap, results, min_k, min_results, max_results, balanced_recs,
                   final_recs, failed, enhance_vars, search_results, result, response,
                   embed_calls, index_queries, engine_inits, call_log>>

\* an offline build creates the missing collection while the server runs
BuildCollection ==
    /\ pc = "serving"
    /\ ~store.exists
    /\ store' \in { st \in ServedStores : st.exists /\ st.ids # <<>> }
    /\ UNCHANGED <<pc, use_api, pipeline_kind, collection, catalog, parsed, stats,
                   updated_count, heap, results, min_k, min_results, max_results,
                   balanced_recs, final_recs, failed, enhance_vars, service_vars>>

NextServer ==
    \/ Recommend
    \/ HealthCheck
    \/ Root
    \/ BuildCollection

SpecServer == InitServer /\ [][NextServer]_vars


(***************************************************************************)
(* What the claims are stated with: the groups and the slices, defined     *)
(* without the operators that model the code.                              *)
(***************************************************************************)
\* some tag of the record (or its raw test_type string) has an upper-case K
HasUpperK(r) ==
    CASE r.test_type.kind = "list" ->
            \E i \in DOMAIN r.test_type.val :
                \E j \in DOMAIN r.test_type.val[i] : r.test_type.val[i][j] = "K"
      [] r.test_type.kind = "str" ->
            \E j \in DOMAIN r.test_type.val : r.test_type.val[j] = "K"
      [] OTHER -> FALSE

RECURSIVE Pick(_, _, _)
Pick(h, rs, want) ==
    IF rs = <<>> THEN <<>>
    ELSE (IF HasUpperK(h[Head(rs)]) = want THEN <<Head(rs)>> ELSE <<>>)
         \o Pick(h, Tail(rs), want)

GroupA == Pick(heap, results, TRUE)
GroupB == Pick(heap, results, FALSE)

FirstN(s, n) == [i \in 1..Min(n, Len(s)) |-> s[i]]
DropN(s, n) == [i \in 1..Max(Len(s) - n, 0) |-> s[i + n]]

IsIncreasing(s) == \A i, j \in DOMAIN s : i < j => s[i] < s[j]

Balanced == pc \in {"balanced", "rebalanced"}

(***************************************************************************)
(* Claims on the local path.                                               *)
(***************************************************************************)

\* C1: the local pipeline (balance_recommendations, then the caller's cut)
\* returns at most min(10, max_results) recommendations.
C1_AtMostMinTenMax ==
    pc = "returned" =>
        /\ Len(final_recs) <= Min(10, max_results)
        /\ Len(final_recs) <= 10
        /\ Len(final_recs) <= max_results

C1_Witness ==
    /\ pc = "returned"
    /\ Len(results) > 10
    /\ max_results > 10
    /\ Len(final_recs) = 10

\* C2: the result is A[0..min_k) ++ B[0..3) ++ A[min_k..) ++ B[3..), cut to 10;
\* with |A| >= min_k and |B| >= 3 it starts with A's first min_k and B's first 3;
\* 3 knowledge + 7 others with min_k = 2 give K1,K2,B1,B2,B3,K3,B4,B5,B6,B7.
C2_FillOrder ==
    Balanced =>
        /\ balanced_recs =
             FirstN(FirstN(GroupA, min_k) \o FirstN(GroupB, 3)
                    \o DropN(GroupA, min_k) \o DropN(GroupB, 3), 10)
        /\ (Len(GroupA) >= min_k /\ Len(GroupB) >= 3) =>
             /\ \A i \in 1..min_k : balanced_recs[i] = GroupA[i]
             /\ \A i \in 1..3 : balanced_recs[min_k + i] = GroupB[i]
        /\ (Len(GroupA) = 3 /\ Len(GroupB) = 7 /\ min_k = 2) =>
             balanced_recs =
               << GroupA[1], GroupA[2], GroupB[1], GroupB[2], GroupB[3],
                  GroupA[3], GroupB[4], GroupB[5], GroupB[6], GroupB[7] >>

C2_Witness ==
    /\ pc = "balanced"
    /\ min_k = 2
    /\ GroupA = <<1, 2, 3>>
    /\ Len(GroupB) = 7
    /\ balanced_recs = <<1, 2, 4, 5, 6, 3, 7, 8, 9, 10>>

\* C3 as stated: balance is idempotent on its own output, and a list shorter
\* than every quota (fewer than min_k, 3 and 10 items) is returned unchanged,
\* whatever the tags of its items.
ShorterThanEveryQuota ==
    /\ Len(results) < min_k
    /\ Len(results) < 3
    /\ Len(results) < 10

C3_Original ==
    /\ pc = "rebalanced" => final_recs = balanced_recs
    /\ (Balanced /\ ShorterThanEveryQuota) => balanced_recs = results

\* C3 as amended: balance is idempotent on its own output; a list shorter than
\* every quota is returned with its knowledge items first and the others after
\* them, each in original order, so it is unchanged exactly when no other item
\* precedes a knowledge item; with the default min_k = 2 such a list has at most
\* one item and is unchanged.
C3_Idempotent ==
    /\ pc = "rebalanced" => final_recs = balanced_recs
    /\ (Balanced /\ ShorterThanEveryQuota) =>
         /\ balanced_recs = GroupA \o GroupB
         /\ (balanced_recs = results) <=>
              ~ \E i, j \in DOMAIN results :
                   i < j /\ ~HasUpperK(heap[results[i]]) /\ HasUpperK(heap[results[j]])
         /\ min_k <= 2 => balanced_recs = results

C3_Witness ==
    /\ pc = "rebalanced"
    /\ ShorterThanEveryQuota
    /\ Len(results) = 2
    /\ balanced_recs = <<2, 1>>
    /\ final_recs = balanced_recs

\* C4: a group shorter than its quota is not backfilled in the early slots:
\* with |A| < min_k the result is all of A, then B in original order, cut to 10;
\* with no knowledge-tagged candidate it is the first 10 candidates in order.
C4_NoBackfill ==
    Balanced =>
        /\ Len(GroupA) < min_k => balanced_recs = FirstN(GroupA \o GroupB, 10)
        /\ Len(GroupA) = 0 => balanced_recs = FirstN(results, 10)

C4_Witness ==
    /\ pc = "balanced"
    /\ min_k = 3
    /\ GroupA = <<5, 11>>
    /\ balanced_recs = <<5, 11, 1, 2, 3, 4, 6, 7, 8, 9>>

\* C5: a candidate is in group A iff one of its tags has an upper-case K (a
\* lower-case k does not qualify, no tags means group B); every candidate is in
\* exactly one group; each group keeps the original order.
C5_Partition ==
    Balanced =>
        LET k_tests == k_tests_of(heap, results)
            other_tests == other_tests_of(heap, results)
        IN  /\ \A o \in Range(results) :
                 /\ (o \in Range(k_tests)) <=> HasUpperK(heap[o])
                 /\ (o \in Range(other_tests)) <=> ~HasUpperK(heap[o])
            /\ Len(k_tests) + Len(other_tests) = Len(results)
            /\ IsIncreasing(k_tests) /\ IsIncreasing(other_tests)
            /\ Len(results) <= 10 =>
                 balanced_recs = FirstN(k_tests, min_k) \o FirstN(other_tests, 3)
                                 \o DropN(k_tests, min_k) \o DropN(other_tests, 3)

C5_Witness ==
    /\ pc = "balanced"
    /\ Len(results) = 2
    /\ heap[1].test_type = TList(<<S_Skills>>)
    /\ heap[2].test_type = TList(<<S_Competencies, S_KnowledgeSkills>>)
    /\ balanced_recs = <<2, 1>>

(***************************************************************************)
(* Claims on the two balancing variants.                                   *)
(***************************************************************************)
Returned == pc \in {"api_returned", "local_returned"}

\* C6: both balancing variants never fail and never return more than
\* max_results items, for every candidate list (empty, records without
\* test_type, duplicate records) and every min_results, max_results >= 0.
C6_NeverFails ==
    Returned =>
        /\ ~failed
        /\ Len(final_recs) >= 0
        /\ Len(final_recs) <= max_results

C6_Witness ==
    /\ pc = "api_returned"
    /\ results = <<6, 3, 6>>
    /\ min_results = 4
    /\ max_results = 3
    /\ final_recs = <<6, 3, 6>>
    /\ ~failed

\* the round-robin order of the candidate positions: by round (the rank of
\* the candidate among those of its key), then by first appearance of the key
KeyAt(i) == test_type_key(heap[results[i]])
RoundOf(i) == Cardinality({ j \in 1..i : KeyAt(j) = KeyAt(i) })
FirstOf(i) == CHOOSE j \in 1..i : KeyAt(j) = KeyAt(i) /\ \A l \in 1..(j - 1) : KeyAt(l) # KeyAt(i)
Before(i, j) ==
    \/ RoundOf(i) < RoundOf(j)
    \/ RoundOf(i) = RoundOf(j) /\ FirstOf(i) < FirstOf(j)
RankOf(i) == 1 + Cardinality({ j \in DOMAIN results : Before(j, i) })
RoundOrder ==
    [n \in DOMAIN results |-> results[CHOOSE i \in DOMAIN results : RankOf(i) = n]]

AllKeys == { KeyAt(i) : i \in DOMAIN results }
WithKey(s, k) == SelectSeq(s, LAMBDA o : test_type_key(heap[o]) = k)

\* C7: the API variant selects in rounds over the keys in order of first
\* appearance, taking the next unused candidate of each key, and stops at
\* max_results; in every prefix of the result two keys that are both not yet
\* exhausted differ by at most 1; candidates of one key keep their order.
C7_RoundRobin ==
    pc = "api_returned" =>
        /\ final_recs = FirstN(RoundOrder, max_results)
        /\ \A n \in 0..Len(final_recs) : \A k1, k2 \in AllKeys :
             LET c1 == Len(WithKey(FirstN(final_recs, n), k1))
                 c2 == Len(WithKey(FirstN(final_recs, n), k2))
             IN  (c1 < Len(WithKey(results, k1)) /\ c2 < Len(WithKey(results, k2)))
                     => (c1 - c2 <= 1 /\ c2 - c1 <= 1)
        /\ \A k \in AllKeys :
             WithKey(final_recs, k) =
                 FirstN(WithKey(results, k), Len(WithKey(final_recs, k)))

C7_Witness ==
    /\ pc = "api_returned"
    /\ results = <<1, 2, 3>>
    /\ max_results = 3
    /\ final_recs = <<1, 3, 2>>

\* the candidates no round took, appended in original order until mn items
RECURSIVE PadUnused(_, _, _)
PadUnused(rs, acc, mn) ==
    IF rs = <<>> \/ Len(acc) >= mn THEN acc
    ELSE IF Head(rs) \in Range(acc) THEN PadUnused(Tail(rs), acc, mn)
    ELSE PadUnused(Tail(rs), Append(acc, Head(rs)), mn)

\* C8: when the round-robin selection ends with fewer than min_results items,
\* unused candidates are appended in original order until min_results items are
\* reached; so for min_results <= max_results the result has at least
\* min(min_results, number of candidates) items and no candidate twice.
C8_PadToMinimum ==
    pc = "api_returned" =>
        /\ balanced_recs = PadUnused(results, FirstN(RoundOrder, max_results), min_results)
        /\ min_results <= max_results =>
             /\ Len(final_recs) >= Min(min_results, Len(results))
             /\ \A o \in Range(results) :
                  Len(SelectSeq(final_recs, LAMBDA x : x = o))
                      <= Len(SelectSeq(results, LAMBDA x : x = o))

(***************************************************************************)
(* Claims on the query enhancer.                                           *)
(***************************************************************************)
\* the role occurs in the lower-cased raw query
OccursLower(role) ==
    \E i \in 1..Len(query) :
        /\ i + Len(role) - 1 <= Len(query)
        /\ \A j \in DOMAIN role : LowerChar(query[i + j - 1]) = role[j]

ClaimedRoleOrder ==
    << <<"d","e","v","e","l","o","p","e","r">>,
       <<"d","a","t","a"," ","s","c","i","e","n","t","i","s","t">>,
       <<"m","a","n","a","g","e","r">>,
       <<"a","n","a","l","y","s","t">>,
       <<"e","n","g","i","n","e","e","r">>,
       <<"d","e","s","i","g","n","e","r">>,
       <<"s","a","l","e","s">>,
       <<"m","a","r","k","e","t","i","n","g">> >>

MatchedRoles == { r \in DOMAIN ClaimedRoleOrder : OccursLower(ClaimedRoleOrder[r]) }

\* C9: enhance_query appends at most one role expansion: the expansion of the
\* first role, in the order developer, data scientist, manager, analyst,
\* engineer, designer, sales, marketing, that the lower-cased raw query
\* contains, once, after the working text; nothing when it contains none.
C9_FirstRoleOnly ==
    pc = "enhanced" =>
        /\ [r \in DOMAIN skill_keywords |-> skill_keywords[r].role] = ClaimedRoleOrder
        /\ MatchedRoles = {} => enhanced_query = url_context
        /\ MatchedRoles # {} =>
             LET r == CHOOSE x \in MatchedRoles : \A y \in MatchedRoles : x <= y
             IN  enhanced_query = url_context \o <<" ">> \o skill_keywords[r].keywords

C9_Witness ==
    /\ pc = "enhanced"
    /\ query = <<"S","a","l","e","s"," ","M","a","n","a","g","e","r"," ","d","e","v",
              "e","l","o","p","e","r">>
    /\ MatchedRoles = {1, 3, 7}
    /\ enhanced_query = query \o <<" ">> \o skill_keywords[1].keywords

\* the first match of https?://[^\s]+ in the raw query
IsUrlStart(i) ==
    \/ /\ MatchAt(query, S_https, i)
       /\ i + 8 <= Len(query)
       /\ ~IsSpace(query[i + 8])
    \/ /\ MatchAt(query, S_http, i)
       /\ i + 7 <= Len(query)
       /\ ~IsSpace(query[i + 7])

HasUrl == \E i \in DOMAIN query : IsUrlStart(i)

FirstUrl ==
    LET start == CHOOSE i \in DOMAIN query :
                     IsUrlStart(i) /\ \A l \in 1..(i - 1) : ~IsUrlStart(l)
        end == CHOOSE e \in start..Len(query) :
                   /\ \A k \in start..e : ~IsSpace(query[k])
                   /\ e = Len(query) \/ IsSpace(query[e + 1])
    IN  SubSeq(query, start, end)

\* the tokens of a string: its maximal runs without '/', '-', '_' and blanks
IsSeparator(c) == c \in {"/", "-", "_"} \/ IsSpace(c)

TokensOver(c, minlen) ==
    LET isStart(i) == ~IsSeparator(c[i]) /\ (i = 1 \/ IsSeparator(c[i - 1]))
        runEnd(i) == CHOOSE e \in i..Len(c) :
                         /\ \A k \in i..e : ~IsSeparator(c[k])
                         /\ e = Len(c) \/ IsSeparator(c[e + 1])
        starts == SelectSeq(Iota(Len(c)),
                            LAMBDA i : isStart(i) /\ runEnd(i) - i + 1 > minlen)
    IN  [n \in DOMAIN starts |-> SubSeq(c, starts[n], runEnd(starts[n]))]

\* C10: without a URL the working text is the raw query; with one or more it
\* is built from the first URL only: scheme and 'www.' removed, the tokens
\* between '/', '-' and '_' of length > 2 in order, joined by single blanks;
\* the text outside that URL is discarded.
C10_UrlContext ==
    pc = "enhanced" =>
        /\ ~HasUrl => url_context = query
        /\ HasUrl =>
             LET clean == PyReplace(PyReplace(PyReplace(FirstUrl, S_https, <<>>),
                                              S_http, <<>>), S_www, <<>>)
             IN  url_context = JoinStr(TokensOver(clean, 2), <<" ">>)

C10_Witness ==
    /\ pc = "enhanced"
    /\ query = <<"S","a","l","e","s"," ","M","a","n","a","g","e","r"," ","h","t","t",
              "p",":","/","/","w","w","w",".","x",".","i","o","/"," ",
              "h","t","t","p","s",":","/","/","b","/","a","b","/">>
    /\ url_context = <<"x",".","i","o">>

(***************************************************************************)
(* The worked example of enhance_query.                                    *)
(***************************************************************************)
S_job_python_dev ==
    <<"j","o","b"," ","p","y","t","h","o","n"," ","d","e","v">>
S_example_com == <<"e","x","a","m","p","l","e",".","c","o","m">>

\* C11 as stated: for 'developer role, need https://example.com/job-python-dev'
\* the URL tokens are exactly job, python, dev (the host contributes no token)
\* and the enhanced text is those tokens followed by the developer expansion.
C11_HostStripped ==
    (pc = "enhanced" /\ query = ExampleQuery) =>
        /\ url_context = S_job_python_dev
        /\ enhanced_query = S_job_python_dev \o S_Space \o skill_keywords[1].keywords

\* C11, amended: for that query the URL tokens are example.com, job, python,
\* dev (only the scheme and 'www.' are removed, the host stays), and the
\* enhanced text is those tokens followed by the developer expansion once.
C11_ExampleQuery ==
    (pc = "enhanced" /\ query = ExampleQuery) =>
        /\ url_context = S_example_com \o S_Space \o S_job_python_dev
        /\ enhanced_query = url_context \o S_Space \o skill_keywords[1].keywords
        /\ \A i \in 2..Len(skill_keywords) :
               ~Contains(enhanced_query, skill_keywords[i].keywords)

C11_Witness ==
    /\ pc = "enhanced"
    /\ query = ExampleQuery
    /\ Contains(url_context, S_example_com)
    /\ Contains(enhanced_query, skill_keywords[1].keywords)

(***************************************************************************)
(* Claims on the index build and on get_stats.                             *)
(***************************************************************************)
LocalIndexed == pipeline_kind = "local" /\ pc \in {"indexed", "parsed"}

\* the text has an empty segment: it starts or ends with ' | ', or two
\* separators follow each other
HasEmptySegment(text) ==
    \/ MatchAt(text, S_Sep, 1)
    \/ MatchAt(text, S_Sep, Len(text) - Len(S_Sep) + 1)
    \/ Contains(text, S_Sep \o S_Sep)

\* C12 as stated: whatever fields of an item are absent or empty (an empty
\* test_type list or empty tags included), its document text has no empty
\* segment: no leading, trailing or doubled ' | '.
C12_NoEmptySegment ==
    LocalIndexed =>
        \A i \in DOMAIN store.documents : ~HasEmptySegment(store.documents[i])

\* the fields of an item in the documented order, each with its text
NonEmpty(v) == v.kind # "absent" /\ v.val # <<>>

FieldsInOrder(a) ==
    << [present |-> NonEmpty(a.name) \/ NonEmpty(a.assessment_name),
        text |-> IF NonEmpty(a.name) THEN a.name.val ELSE a.assessment_name.val],
       [present |-> NonEmpty(a.test_type),
        text |-> IF a.test_type.kind = "list"
                 THEN JoinStr(a.test_type.val, <<",", " ">>)
                 ELSE a.test_type.val],
       [present |-> NonEmpty(a.description),
        text |-> a.description.val] >>

PresentTexts(a) ==
    LET kept == SelectSeq(FieldsInOrder(a), LAMBDA f : f.present)
    IN  [i \in DOMAIN kept |-> kept[i].text]

C13_InOrder ==
    LocalIndexed =>
        /\ Len(store.documents) = Len(catalog)
        /\ \A i \in DOMAIN catalog :
               store.documents[i] = JoinStr(PresentTexts(catalog[i]), <<" ", "|", " ">>)
        /\ \A i, j \in DOMAIN catalog :
               catalog[i] = catalog[j] => store.documents[i] = store.documents[j]

\* C13: the document text is the present fields in the order name (or
\* assessment_name when name is absent or empty), test_type (tags joined by
\* ', ', or the raw value), description, joined by ' | '; equal items give
\* equal texts, and no step of the build changes the items.
C13_PureOrdered == [](C13_InOrder) /\ [][catalog' = catalog]_vars

C13_Witness ==
    /\ LocalIndexed
    /\ Len(catalog) = 2
    /\ catalog[1] = catalog[2]
    /\ catalog[1].name = TStr(<<>>)
    /\ catalog[1].assessment_name = TStr(<<"A">>)
    /\ catalog[1].test_type = TList(<<S_K, S_P>>)
    /\ store.documents[2] = <<"A"," ","|"," ","K",","," ","P"," ","|"," ","D">>

\* C18: get_stats on a pipeline whose collection does not exist returns
\* {'error': 'Collection not found'} without raising, and changes nothing: the
\* handle stays unset and the store still has no collection; for both the
\* local and the API pipeline.
C18_StatsNotFound ==
    [][ (GetStats /\ ~store.exists) =>
            /\ stats' = [kind |-> "error", error |-> "Collection not found"]
            /\ ~failed'
            /\ collection = "unset" /\ collection' = "unset"
            /\ store' = store /\ ~store'.exists
            /\ catalog' = catalog /\ pipeline_kind' = pipeline_kind ]_vars

C18_Witness ==
    /\ pipeline_kind = "api"
    /\ stats = CollectionNotFound
    /\ collection = "unset"
    /\ ~store.exists
    /\ ~failed

\* the tag has no comma and no leading or trailing whitespace
CleanTag(t) ==
    /\ \A k \in DOMAIN t : t[k] # ","
    /\ t # <<>> => ~IsSpace(t[1]) /\ ~IsSpace(t[Len(t)])

\* C20 as stated: every test_type list whose tags have no comma and no
\* leading or trailing whitespace (the empty list and one-element lists
\* included) is read back from the stored metadata as the same list, on the
\* local and on the API path.
C20_RoundTrip ==
    pc = "parsed" =>
        \A i \in DOMAIN catalog :
            (/\ catalog[i].test_type.kind = "list"
             /\ \A k \in DOMAIN catalog[i].test_type.val :
                    CleanTag(catalog[i].test_type.val[k]))
                => parsed[i] = catalog[i].test_type.val

(***************************************************************************)
(* Claims on /recommend.                                                   *)
(***************************************************************************)
\* a request has been answered
Answered == pc = "serving" /\ response # NoResponse

\* the text is empty or only whitespace
IsBlankText(q) == \A i \in DOMAIN q : q[i] \in {" ", "\t", "\n"}

\* the index was queried and reported no candidate
ZeroCandidates ==
    /\ Answered
    /\ index_queries = 1
    /\ search_results.kind \in {"falsy", "dict"}
    /\ search_results.metadatas.val = <<>>

\* the candidates the index returned
Candidates ==
    IF search_results.kind = "dict" /\ search_results.metadatas.kind = "listed"
    THEN search_results.metadatas.val
    ELSE <<>>

\* C14 as stated: a query that is empty or only whitespace is answered with
\* HTTP 400 'Query cannot be empty', and no embedding call and no index query
\* is made for that request, in either embedding mode.
C14_BlankRejected ==
    (Answered /\ IsBlankText(query)) =>
        /\ response.status = 400
        /\ response.detail = "Query cannot be empty"
        /\ embed_calls = 0
        /\ index_queries = 0

\* C15 as stated: when a blank query is the first request of the process it
\* is answered with the empty-query rejection without constructing the
\* engine: no initialization is triggered and the answer is never the 503
\* initialization failure.
C15_BlankBeforeEngine ==
    [][ (response = NoResponse /\ IsBlankText(query')) =>
            /\ response'.status = 400
            /\ response'.detail = "Query cannot be empty"
            /\ engine_inits' = 0
            /\ recommender' = "None" ]_vars

\* C16 as stated: when the index query returns zero candidates (missing or
\* empty 'metadatas', or a single empty inner list) get_recommendations
\* returns an empty list with an informational message and no 'error' entry,
\* and /recommend answers successfully with an empty list.
C16_NoMatches ==
    ZeroCandidates =>
        /\ result.kind = "dict"
        /\ ~result.error
        /\ result.message
        /\ result.recommendations = <<>>
        /\ response.status = 200
        /\ response.recommendations = <<>>

\* C17: when the query-embedding call fails the caller sees a failure, in
\* both embedding modes: the answer has an error status, never a successful
\* one with an empty or substitute list, and the index is not queried.
C17_EmbeddingFailureSurfaces ==
    (Answered /\ search_results.kind = "raised" /\ search_results.by = "embedding") =>
        /\ response.status >= 400
        /\ response.status # 200
        /\ response.recommendations = <<>>
        /\ embed_calls = 1
        /\ index_queries = 0

C17_Witness ==
    /\ Answered
    /\ use_api
    /\ store.exists
    /\ search_results.kind = "raised"
    /\ search_results.by = "embedding"
    /\ response.status = 400

\* C19: when the index returns at least 5 candidates for a non-blank query,
\* a successful answer (min_results = 5, max_results = 10) carries at least 5
\* and at most 10 recommendations, in both embedding modes.
C19_FiveToTen ==
    (Answered /\ ~IsBlankText(query) /\ Len(Candidates) >= 5 /\ response.status = 200) =>
        /\ Len(response.recommendations) >= 5
        /\ Len(response.recommendations) <= 10

C19_Witness ==
    /\ Answered
    /\ use_api
    /\ ~IsBlankText(query)
    /\ Len(Candidates) = 11
    /\ response.status = 200
    /\ Len(response.recommendations) = 10

(***************************************************************************)
(* Claims on what the balancing variants leave behind.                     *)
(***************************************************************************)
\* C28 as stated: when API-path balance_recommendations returns, no candidate
\* record of the input, returned or not, still carries the temporary
\* '_test_type_key' field, also when there are more candidates than
\* max_results.
C28_KeysCleanedUp ==
    (pc = "api_returned" /\ ~failed) =>
        \A i \in DOMAIN results : ~heap[results[i]].tkey.set

\* the result selects input positions, none twice, and fills min(10, n) places
C29_Selection ==
    pc = "balanced" =>
        /\ \A i \in DOMAIN balanced_recs : balanced_recs[i] \in DOMAIN results
        /\ IsInjective(balanced_recs)
        /\ Len(balanced_recs) = Min(10, Len(results))

\* C29: local balance_recommendations only reorders and truncates: for every
\* candidate list and min_k >= 0 the result is a selection of input positions
\* in which no position occurs twice and nothing is invented, it has exactly
\* min(10, number of candidates) items, and the input list and its records
\* are not modified.
C29_ReorderTruncate == [](C29_Selection) /\ [][heap' = heap /\ results' = results]_vars

C29_Witness ==
    /\ pc = "balanced"
    /\ Len(results) = 11
    /\ min_k = 3
    /\ heap[1].test_type = TList(<<S_P>>)
    /\ heap[11].test_type = TList(<<S_K>>)
    /\ Len(balanced_recs) = 10
    /\ balanced_recs[1] # 1

(***************************************************************************)
(* Claim on the text that is embedded.                                     *)
(***************************************************************************)
\* C30 as stated: in the local path, for every query that passes the
\* blank-query check of /recommend (a query that is only a URL whose tokens
\* all have length <= 2 included), the enhanced query that is embedded
\* contains at least one non-whitespace character.
C30_NeverBlank ==
    (pc = "enhanced" /\ ~IsBlankText(query)) => ~IsBlankText(enhanced_query)

(***************************************************************************)
(* Claims on rebuilds and selective updates.                               *)
(***************************************************************************)
\* a full rebuild by either path
FullRebuild == LoadAndEmbedAssessments \/ RegenerateEmbeddings

\* C21 as stated: the document id is stable per catalog item: two full
\* rebuilds over catalogs that contain the same items (identified by url), in
\* a different order or with other items added or removed before them, assign
\* the same id to the same item.
C21_StableIds ==
    [][ FullRebuild =>
            \A i \in DOMAIN store.ids, j \in DOMAIN store'.ids :
                store.metadatas[i].url = store'.metadatas[j].url
                    => store.ids[i] = store'.ids[j] ]_vars

\* the id the i-th item gets (i from 1): 'assessment_' and the digit of i - 1
NthId(i) == <<"a","s","s","e","s","s","m","e","n","t","_">> \o <<Digits[i]>>

\* C26: a full rebuild is delete-and-recreate with a single bulk insert: after
\* a rebuild over n items the collection holds exactly n documents with the
\* pairwise distinct ids assessment_0 .. assessment_(n-1), each the document
\* of the catalog item at that place, and none of the previous collection; if
\* the embedding fails, the previous collection is gone and the collection is
\* left empty, never partially populated.
C26_DeleteAndRecreate ==
    [][ FullRebuild =>
            /\ store'.exists
            /\ IF failed'
               THEN store'.ids = <<>> /\ store'.documents = <<>> /\ store'.metadatas = <<>>
               ELSE /\ Len(store'.ids) = Len(catalog)
                    /\ Len(store'.documents) = Len(catalog)
                    /\ Len(store'.metadatas) = Len(catalog)
                    /\ IsInjective(store'.ids)
                    /\ \A i \in DOMAIN catalog :
                         /\ store'.ids[i] = NthId(i)
                         /\ store'.metadatas[i].url = catalog[i].url.val
                         /\ store'.documents[i] =
                                JoinStr(PresentTexts(catalog[i]), <<" ", "|", " ">>) ]_vars

C26_Witness ==
    /\ pc = "pipeline"
    /\ pipeline_kind = "api"
    /\ failed
    /\ updated_count = 1
    /\ Len(catalog) = 2
    /\ store.exists
    /\ store.ids = <<>>

\* the catalog items that have a record of the same url
MatchedItems(st, cat) ==
    { i \in DOMAIN cat :
        /\ cat[i].url.kind # "absent"
        /\ \E j \in DOMAIN st.ids : st.metadatas[j].url = cat[i].url.val }

\* C27: the selective update matches catalog items to indexed documents by url
\* only: it never adds or removes a document, a catalog item with no document
\* of the same url is skipped and not counted, a document whose url matches no
\* catalog item is left unchanged, and the reported count never exceeds the
\* number of catalog items.
C27_UpdateByUrl ==
    [][ UpdateChromadb =>
            /\ store'.exists = store.exists
            /\ store'.ids = store.ids
            /\ Len(store'.documents) = Len(store.documents)
            /\ Len(store'.metadatas) = Len(store.metadatas)
            /\ updated_count' <= Cardinality(MatchedItems(store, catalog))
            /\ updated_count' <= Len(catalog)
            /\ ~failed' => updated_count' = Cardinality(MatchedItems(store, catalog))
            /\ \A j \in DOMAIN store.ids :
                 (\A i \in DOMAIN catalog : catalog[i].url.val # store.metadatas[j].url)
                     => /\ store'.documents[j] = store.documents[j]
                        /\ store'.metadatas[j] = store.metadatas[j]
            /\ \A j \in DOMAIN store.ids :
                 store'.metadatas[j].url = store.metadatas[j].url ]_vars

C27_Witness ==
    /\ pc = "updated"
    /\ ~failed
    /\ updated_count = 1
    /\ Len(catalog) = 2
    /\ Len(store.ids) = 2
    /\ store.metadatas[1].url = catalog[2].url.val
    /\ store.documents[1] = <<"D">>
    /\ store.documents[2] # <<"D">>
    /\ \A i \in DOMAIN catalog : catalog[i].url.val # store.metadatas[2].url

(***************************************************************************)
(* Claims on the server process.                                           *)
(***************************************************************************)
\* how often the call occurs in the log
CountOf(log, call) == Cardinality({ i \in DOMAIN log : log[i] = call })

\* C22: /health and / never initialize the recommendation engine: after any
\* sequence of such requests the module-level recommender is what it was
\* (still unset if it was unset), nothing is constructed or fetched, and
\* /health answers 'healthy' whether or not the engine could be constructed.
C22_HealthNeverInitializes ==
    /\ [][ (HealthCheck \/ Root) =>
               /\ recommender' = recommender
               /\ collection' = collection
               /\ engine_inits' = engine_inits
               /\ call_log' = call_log
               /\ response' = response ]_vars
    /\ [](health.endpoint = "/health" => health.status = "healthy")

C22_Witness ==
    /\ health = Healthy
    /\ recommender = "None"
    /\ response.status = 503
    /\ engine_inits = 1

\* a step of POST /recommend: of the steps that change anything, the only
\* ones that leave both the store and the last GET answer as they are
RecommendStep == store' = store /\ health' = health

\* C23: the engine is a lazy singleton: over any sequence of requests it is
\* constructed successfully at most once, every later request uses that
\* engine and its embedding mode without constructing anything; a
\* construction that fails leaves the recommender unset, answers that request
\* with 503, and is attempted again by the next request.
C23_LazySingleton ==
    [][ /\ recommender # "None" => recommender' = recommender
        /\ RecommendStep =>
             IF recommender # "None"
             THEN /\ engine_inits' = 0
                  /\ CountOf(call_log', "construct") = 0
             ELSE /\ engine_inits' = 1
                  /\ CountOf(call_log', "construct") = 1
                  /\ recommender' = "None" =>
                       /\ response'.status = 503
                       /\ response'.detail = "Failed to initialize recommendation engine"
                  /\ recommender' # "None" =>
                       /\ recommender' = (IF use_api THEN "api" ELSE "local")
                       /\ response'.status # 503 ]_vars

C23_Witness ==
    /\ recommender = "api"
    /\ use_api
    /\ engine_inits = 0
    /\ response.status = 200
    /\ call_log = <<"enhance", "embed", "query", "balance", "format">>

\* C24: a missing collection is a recoverable setup condition: constructing
\* the engine while the collection is missing succeeds without a handle,
\* requests made while it is missing cache no handle, once the collection has
\* been created the next request fetches it and is served by the same engine
\* without a construction, and no request made with the handle loaded fetches
\* the collection again.
C24_MissingCollectionRecoverable ==
    [][ RecommendStep =>
          /\ ~store.exists => collection' = "unset"
          /\ (recommender = "None" /\ recommender' # "None" /\ ~store.exists) =>
                response'.status # 503
          /\ (recommender # "None" /\ collection = "unset" /\ store.exists
                  /\ ~IsBlankText(query')) =>
                /\ recommender' = recommender
                /\ engine_inits' = 0
                /\ collection' = "set"
                /\ CountOf(call_log', "get_collection") = 1
                /\ search_results'.by # "get_collection"
                /\ search_results'.kind = "dict" => response'.status \in {200, 500}
          /\ collection = "set" =>
                /\ collection' = "set"
                /\ CountOf(call_log', "get_collection") = 0 ]_vars

C24_Witness ==
    /\ recommender = "local"
    /\ engine_inits = 0
    /\ collection = "set"
    /\ response.status = 200
    /\ call_log = <<"enhance", "get_collection", "embed", "query", "balance", "format">>

\* the place of a call in the chain of a request, 0 for calls outside it
StageOf(call) ==
    CASE call = "enhance" -> 1
      [] call = "embed" -> 2
      [] call = "query" -> 3
      [] call = "balance" -> 4
      [] call = "format" -> 5
      [] OTHER -> 0

\* the calls of the chain that the request made
ChainCalls == SelectSeq(call_log, LAMBDA c : StageOf(c) > 0)

\* C25: each accepted request is one chain enhance, embed, index query,
\* balance, format in that order: every stage is entered at most once and
\* never before an earlier one, so the embedding provider is called at most
\* once and the index is queried at most once; the index is queried only
\* after a successful embedding call, and after a failed embedding call or
\* index query no further call is made to either.
C25_SingleChain ==
    Answered =>
        /\ \A i, j \in DOMAIN ChainCalls :
               i < j => StageOf(ChainCalls[i]) < StageOf(ChainCalls[j])
        /\ embed_calls = CountOf(call_log, "embed") /\ embed_calls <= 1
        /\ index_queries = CountOf(call_log, "query") /\ index_queries <= 1
        /\ index_queries = 1 =>
               /\ embed_calls = 1
               /\ ~(search_results.kind = "raised" /\ search_results.by = "embedding")
        /\ search_results.kind = "raised" =>
               /\ CountOf(call_log, "balance") = 0
               /\ CountOf(call_log, "format") = 0
               /\ response.status = 400

C25_Witness ==
    /\ Answered
    /\ search_results.kind = "raised"
    /\ search_results.by = "query"
    /\ call_log = <<"enhance", "embed", "query">>
    /\ response.status = 400

====
